---- MODULE Spec2Model ----
(***************************************************************************)
(* Test-strip colorimetric decoding pipeline of strips/process_image.py:   *)
(* the Band Sampler (get_band_color, get_colors) and the Analyte Resolver  *)
(* (is_white_gray, closest_color_index, map_to_value, get_values).         *)
(*                                                                         *)
(* Conventions.  Python lists are sequences read with At (0-based, as in   *)
(* the source).  Python dicts are sequences of [key, val] records in       *)
(* insertion order.  A colour is a triple of channels 0..255.  The numbers *)
(* of the calibration table are held as integer hundredths (8.4 is 840,    *)
(* 0.05 is 5), so that equal numbers are equal integers.  The optional     *)
(* "value" of a result entry is Num(v) for a number and None for null.     *)
(***************************************************************************)
EXTENDS Integers, Sequences, FiniteSets, TLC

VARIABLES
    test_data,  \* the module-level calibration table (a dict, in declared order)
    image,      \* the rectified strip raster that get_colors reads
    colors,     \* the caller's band list object, which get_values works on
    arg,        \* the contents of that list on entry to the latest get_values call
    results,    \* the mapping returned by the latest get_values call
    pc,         \* "start", "sampled" (a band list exists), "resolved"
    caller,     \* "process_image" (bands come from get_colors) or "direct"
    calls,      \* number of get_values calls made on the list
    fs,         \* the file system: the files and directories that exist
    procs,      \* the process_image calls in progress, one record each
    finalize    \* finalize_report's cache, and a record of its latest call

sampler_vars == <<test_data, image, colors, arg, results, pc, caller, calls, finalize>>

vars == <<test_data, image, colors, arg, results, pc, caller, calls, fs, procs, finalize>>

---------------------------------------------------------------------------
(* Bounds of the model *)

\* longest band list a direct caller passes to get_values
MaxBands == 19
\* get_values calls a direct caller makes on one list object
MaxCalls == 2
\* longest reference ramp of the arbitrary-ramp specification
MaxRampLen == 3
\* tallest and widest raster
MaxHeight == 105
MaxWidth == 16

---------------------------------------------------------------------------
(* Python lists and dicts *)

At(list, i) == list[i + 1]

Min(a, b) == IF a < b THEN a ELSE b
Max(a, b) == IF a > b THEN a ELSE b

\* list.reverse()
Reverse(list) == [k \in 1..Len(list) |-> list[Len(list) + 1 - k]]

\* range(start, stop, step) for step > 0, as a list
Range(start, stop, step) ==
    LET n == IF stop > start THEN (stop - start + step - 1) \div step ELSE 0
    IN  [k \in 1..n |-> start + (k - 1) * step]

EmptyDict == <<>>

Keys(d) == [k \in 1..Len(d) |-> d[k].key]

HasKey(d, key) == \E k \in 1..Len(d) : d[k].key = key

\* d[key]
Get(d, key) == d[CHOOSE k \in 1..Len(d) : d[k].key = key].val

\* d[key] = val : an existing key keeps its place and takes the new value
Put(d, key, val) ==
    IF HasKey(d, key)
    THEN [k \in 1..Len(d) |-> IF d[k].key = key THEN [key |-> key, val |-> val] ELSE d[k]]
    ELSE Append(d, [key |-> key, val |-> val])

None == <<>>
Num(v) == <<v>>

---------------------------------------------------------------------------
(* The built-in calibration table *)

Analyte(name, values, ref_colors) ==
    [key |-> name, val |-> [values |-> values, colors |-> ref_colors]]

builtin_test_data == <<
    Analyte("Total Alkalinity", <<24000, 18000, 12000, 8000, 4000, 0>>,
        << <<40,79,58>>, <<55,91,56>>, <<91,116,61>>, <<117,123,63>>, <<127,127,69>>, <<175,151,71>> >>),
    Analyte("PH", <<840, 780, 760, 720, 680, 620>>,
        << <<223,53,35>>, <<224,71,33>>, <<219,94,46>>, <<209,110,44>>, <<191,122,57>>, <<169,130,65>> >>),
    Analyte("Hardness", <<42500, 25000, 10000, 5000, 2500, 0>>,
        << <<110,58,87>>, <<92,62,93>>, <<72,72,108>>, <<63,79,121>>, <<52,76,111>>, <<30,67,100>> >>),
    Analyte("Hydrogen Sulfide", <<1000, 500, 300, 200, 100, 50, 0>>,
        << <<116,57,34>>, <<167,104,69>>, <<171,118,79>>, <<216,176,116>>, <<223,198,144>>, <<195,198,181>>, <<180,180,180>> >>),
    Analyte("Iron", <<500, 300, 100, 50, 30, 0>>,
        << <<236,71,35>>, <<231,95,37>>, <<224,120,73>>, <<215,145,117>>, <<193,159,155>>, <<180,180,180>> >>),
    Analyte("Copper", <<500, 200, 100, 50, 20, 0>>,
        << <<212,111,119>>, <<233,128,115>>, <<226,140,106>>, <<215,147,110>>, <<197,163,128>>, <<177,175,143>> >>),
    Analyte("Lead", <<5000, 3000, 1500, 500, 0>>,
        << <<190,67,54>>, <<203,80,60>>, <<209,104,74>>, <<190,115,78>>, <<173,142,80>> >>),
    Analyte("Manganese", <<500, 200, 100, 50, 10, 5, 0>>,
        << <<143,49,76>>, <<163,61,81>>, <<179,73,75>>, <<205,81,71>>, <<210,99,75>>, <<192,130,99>>, <<175,167,95>> >>),
    Analyte("Total Chlorine", <<2000, 1000, 500, 300, 100, 50, 0>>,
        << <<66,128,120>>, <<92,149,133>>, <<132,167,126>>, <<150,174,125>>, <<165,183,133>>, <<186,200,165>>, <<163,179,158>> >>),
    Analyte("Free Chlorine", <<2000, 1000, 500, 300, 100, 50, 0>>,
        << <<74,128,130>>, <<72,146,147>>, <<114,164,158>>, <<128,169,163>>, <<147,179,179>>, <<159,191,197>>, <<180,180,180>> >>),
    Analyte("Nitrate", <<50000, 25000, 10000, 5000, 2500, 1000, 0>>,
        << <<221,65,90>>, <<233,90,108>>, <<240,123,127>>, <<232,138,139>>, <<215,165,166>>, <<206,211,219>>, <<180,180,180>> >>),
    Analyte("Nitrite", <<8000, 4000, 2000, 1000, 500, 100, 0>>,
        << <<209,44,77>>, <<233,75,105>>, <<237,98,113>>, <<231,121,129>>, <<215,146,157>>, <<204,193,199>>, <<180,180,180>> >>),
    Analyte("Sulfate", <<160000, 120000, 80000, 40000, 20000, 0>>,
        << <<120,147,157>>, <<138,150,152>>, <<133,125,137>>, <<128,123,150>>, <<128,117,158>>, <<103,88,137>> >>),
    Analyte("Zinc", <<10000, 5000, 3000, 1000, 500, 0>>,
        << <<82,101,141>>, <<103,92,127>>, <<139,89,114>>, <<139,82,109>>, <<150,82,98>>, <<134,73,96>> >>),
    Analyte("Sodium Chloride", <<200000, 100000, 50000, 25000, 10000, 0>>,
        << <<248,216,141>>, <<251,206,139>>, <<200,119,92>>, <<160,78,77>>, <<145,69,73>>, <<114,63,62>> >>),
    Analyte("Fluoride", <<10000, 5000, 2500, 1000, 400, 0>>,
        << <<246,154,41>>, <<253,143,48>>, <<240,113,54>>, <<220,93,59>>, <<190,59,65>>, <<135,53,65>> >>)
    >>

---------------------------------------------------------------------------
(* Band Sampler: get_band_color, get_colors *)

band_width == 15
white_thresh == 240
num_sections == 52
section_step == 3

\* image.shape[:2]
Shape(img) == <<img.height, img.width>>

\* image[y_start:y_end, x_start:x_end].reshape(-1, 3): the pixels of the
\* slice in row-major order; a slice bound beyond the raster is clamped
BandPixels(img, y_start, y_end, x_start, x_end) ==
    LET y0 == Min(y_start, img.height)
        y1 == Min(y_end, img.height)
        x0 == Min(x_start, img.width)
        x1 == Min(x_end, img.width)
        rows == IF y1 > y0 THEN y1 - y0 ELSE 0
        cols == IF x1 > x0 THEN x1 - x0 ELSE 0
    IN  [k \in 1..(rows * cols) |->
            img.pixels[<<y0 + ((k - 1) \div cols), x0 + ((k - 1) % cols)>>]]

\* the channels left in their stored order
ToRGB_unswapped(pixels) == pixels

\* pixels[:, ::-1] : stored B,G,R to R,G,B
ToRGB(pixels) == [k \in 1..Len(pixels) |-> Reverse(pixels[k])]

\* np.any(pixel < white_thresh)
BelowWhite_any(pixel) == \E c \in 1..Len(pixel) : pixel[c] < white_thresh

\* np.all(pixel < white_thresh)
BelowWhite(pixel) == \A c \in 1..Len(pixel) : pixel[c] < white_thresh

RECURSIVE SumChannel(_, _)
SumChannel(pixels, c) ==
    IF pixels = <<>> THEN 0
    ELSE pixels[1][c] + SumChannel(Tail(pixels), c)

\* tuple(map(int, np.mean(valid_pixels, axis=0))) : int() truncates the mean
MeanRGB(valid_pixels) ==
    [c \in 1..3 |-> SumChannel(valid_pixels, c) \div Len(valid_pixels)]

\* an empty band reported as the white sentinel
get_band_color_empty_white(img, y_start, y_end, center_x) ==
    LET w == Shape(img)[2]
        x_start == Max(0, center_x - band_width \div 2)
        x_end == Min(w, center_x + band_width \div 2)
        band == BandPixels(img, y_start, y_end, x_start, x_end)
        rect == <<x_start, y_start, x_end, y_end>>
        valid_pixels == SelectSeq(ToRGB(band), BelowWhite)
    IN  IF Len(band) = 0 THEN [rgb |-> <<255, 255, 255>>, rect |-> rect]
        ELSE IF Len(valid_pixels) = 0 THEN [rgb |-> <<255, 255, 255>>, rect |-> rect]
        ELSE [rgb |-> MeanRGB(valid_pixels), rect |-> rect]

\* lines 244-261
get_band_color(img, y_start, y_end, center_x) ==
    LET w == Shape(img)[2]
        x_start == Max(0, center_x - band_width \div 2)
        x_end == Min(w, center_x + band_width \div 2)
        band == BandPixels(img, y_start, y_end, x_start, x_end)
        rect == <<x_start, y_start, x_end, y_end>>
        valid_pixels == SelectSeq(ToRGB(band), BelowWhite)
    IN  IF Len(band) = 0 THEN [rgb |-> <<0, 0, 0>>, rect |-> rect]
        ELSE IF Len(valid_pixels) = 0 THEN [rgb |-> <<255, 255, 255>>, rect |-> rect]
        ELSE [rgb |-> MeanRGB(valid_pixels), rect |-> rect]

\* range(0, num_sections + 1, 3)
SampledSections_from_zero == Range(0, num_sections + 1, section_step)

\* range(3, num_sections + 1, 3)
SampledSections == Range(section_step, num_sections + 1, section_step)

\* one entry of colors_detected; the "hex" and "color_name" fields, which come
\* from the webcolors package and are read by no later stage, are left out
\* the rows one section further down
BandRows_next(img, i) ==
    LET section_height == Shape(img)[1] \div num_sections
    IN  <<i * section_height, Min((i + 1) * section_height, Shape(img)[1])>>

\* lines 279-280: <<y_start, y_end>> of section i
BandRows(img, i) ==
    LET section_height == Shape(img)[1] \div num_sections
    IN  <<(i - 1) * section_height, Min(i * section_height, Shape(img)[1])>>

\* lines 274 and 282: the band of section i as get_band_color cuts it
Band(img, i) ==
    get_band_color(img, BandRows(img, i)[1], BandRows(img, i)[2], Shape(img)[2] \div 2)

BandSample(img, i) == [section |-> i, rgb |-> Band(img, i).rgb]

get_colors(img) ==
    [k \in 1..Len(SampledSections) |-> BandSample(img, SampledSections[k])]

---------------------------------------------------------------------------
(* Analyte Resolver: is_white_gray, closest_color_index, map_to_value, get_values *)

gray_threshold == 170

is_white_gray(rgb) ==
    rgb[1] > gray_threshold /\ rgb[2] > gray_threshold /\ rgb[3] > gray_threshold

\* float('inf'): above every sum of three squared channel differences
Inf == 3 * 255 * 255 + 1

RECURSIVE SumSq(_, _, _)
SumSq(rgb, ref_rgb, c) ==
    IF c > Min(Len(rgb), Len(ref_rgb)) THEN 0
    ELSE (rgb[c] - ref_rgb[c]) * (rgb[c] - ref_rgb[c]) + SumSq(rgb, ref_rgb, c + 1)

\* sum((a - b) ** 2 for a, b in zip(rgb, ref_rgb))
ColorDiff(rgb, ref_rgb) == SumSq(rgb, ref_rgb, 1)

\* the loop of closest_color_index from index i on, with the running minimum
RECURSIVE ClosestFrom(_, _, _, _, _)
ClosestFrom(rgb, color_list, i, min_diff, closest_idx) ==
    IF i >= Len(color_list) THEN closest_idx
    ELSE LET diff == ColorDiff(rgb, At(color_list, i))
         IN  IF diff < min_diff
             THEN ClosestFrom(rgb, color_list, i + 1, diff, i)
             ELSE ClosestFrom(rgb, color_list, i + 1, min_diff, closest_idx)

\* the loop with the comparison the other way round (diff > min_diff)
RECURSIVE FarthestFrom(_, _, _, _, _)
FarthestFrom(rgb, color_list, i, min_diff, closest_idx) ==
    IF i >= Len(color_list) THEN closest_idx
    ELSE LET diff == ColorDiff(rgb, At(color_list, i))
         IN  IF diff > min_diff
             THEN FarthestFrom(rgb, color_list, i + 1, diff, i)
             ELSE FarthestFrom(rgb, color_list, i + 1, min_diff, closest_idx)

closest_color_index_flipped(rgb, color_list) == FarthestFrom(rgb, color_list, 0, Inf, 0)

\* the loop taking an equal distance as an improvement (diff <= min_diff)
RECURSIVE ClosestLastFrom(_, _, _, _, _)
ClosestLastFrom(rgb, color_list, i, min_diff, closest_idx) ==
    IF i >= Len(color_list) THEN closest_idx
    ELSE LET diff == ColorDiff(rgb, At(color_list, i))
         IN  IF diff <= min_diff
             THEN ClosestLastFrom(rgb, color_list, i + 1, diff, i)
             ELSE ClosestLastFrom(rgb, color_list, i + 1, min_diff, closest_idx)

closest_color_index_last(rgb, color_list) == ClosestLastFrom(rgb, color_list, 0, Inf, 0)

closest_color_index(rgb, color_list) == ClosestFrom(rgb, color_list, 0, Inf, 0)

\* values_list[index - 1]: a negative index counts from the end of the list
map_to_value_shifted(index, values_list) ==
    At(values_list, (index - 1) % Len(values_list))

\* the index itself in place of the value stored at it
map_to_value_index(index, values_list) == index

map_to_value(index, values_list) == At(values_list, index)

\* the reversal decided on the last band instead of the first
Oriented_by_last(list) ==
    IF is_white_gray(At(list, Len(list) - 1).rgb) THEN Reverse(list) ELSE list

\* no reversal at all
Oriented_never(list) == list

\* lines 316-321: the list is reversed in place when its first band is white/gray
Oriented(list) ==
    IF is_white_gray(At(list, 0).rgb) THEN Reverse(list) ELSE list

\* colors.pop(0)
Pop_first(list) == SubSeq(list, 2, Len(list))

\* colors.pop()
Pop(list) == SubSeq(list, 1, Len(list) - 1)

\* f"Extra {i}"
ExtraKey_zero_based(i) == "Extra " \o ToString(i)

\* f"Extra {i+1}"
ExtraKey(i) == "Extra " \o ToString(i + 1)

\* test_names[-1 - i]: the table read from its end
PairedName_reversed(test_names, i) == At(test_names, Len(test_names) - 1 - i)

\* test_name = test_names[i]
PairedName(test_names, i) == At(test_names, i)

\* one pass of the loop body of get_values for the band at position i
ResolveBand(table, res, i, color) ==
    LET test_names == Keys(table)
    IN  IF i < Len(test_names)
        THEN LET test_name == PairedName(test_names, i)
                 data == Get(table, test_name)
                 idx == closest_color_index(color.rgb, data.colors)
                 value == map_to_value(idx, data.values)
             IN  Put(res, test_name, [value |-> Num(value)])
        ELSE Put(res, ExtraKey(i), [value |-> None])

RECURSIVE ResolveFrom(_, _, _, _)
ResolveFrom(table, list, i, res) ==
    IF i >= Len(list) THEN res
    ELSE ResolveFrom(table, list, i + 1, ResolveBand(table, res, i, At(list, i)))

\* the caller's list after get_values(colors) has returned
get_values_list(list) ==
    IF Len(list) = 0 THEN list ELSE Pop(Oriented(list))

\* the mapping get_values(colors) returns
get_values(table, list) ==
    IF Len(list) = 0 THEN EmptyDict
    ELSE ResolveFrom(table, get_values_list(list), 0, EmptyDict)

---------------------------------------------------------------------------
(* Strip Locator and Perspective Rectifier: the geometry of crop_strip.    *)
(* A line is a pair <<rho, theta>>, theta in microradians; Hough delivers  *)
(* each line wrapped in a list of one, read with line[0].  A point is a    *)
(* pair <<x, y>>.                                                          *)

\* a tolerance wider than one degree
ORIENTATION_TOLERANCE_wide == 2 * 10000

\* 0.01 rad
ORIENTATION_TOLERANCE == 10000
RHO_TOLERANCE == 40
MIN_AREA == 700
\* np.pi, to the microradian
pi_urad == 3141593
\* the reach of the segment drawn along a line (1000 in lines 135-138)
line_reach == 1000

Abs(x) == IF x < 0 THEN 0 - x ELSE x

theta_aligned(theta, main_theta) ==
    \/ Abs(theta - main_theta) < ORIENTATION_TOLERANCE
    \/ Abs(theta - main_theta - pi_urad) < ORIENTATION_TOLERANCE

\* rho - main_rho > RHO_TOLERANCE, the absolute value forgotten
rho_not_close_signed(rho, main_rho) == rho - main_rho > RHO_TOLERANCE

rho_not_close(rho, main_rho) == Abs(rho - main_rho) > RHO_TOLERANCE

RECURSIVE FilterFrom(_, _, _, _)
FilterFrom(secondary_lines, main_rho, main_theta, i) ==
    IF i >= Len(secondary_lines) THEN <<>>
    ELSE LET line == At(secondary_lines, i)
             rho == At(line, 0)[1]
             theta == At(line, 0)[2]
             rest == FilterFrom(secondary_lines, main_rho, main_theta, i + 1)
         IN  IF theta_aligned(theta, main_theta) /\ rho_not_close(rho, main_rho)
             THEN <<line>> \o rest
             ELSE rest

filter_secondary_lines(secondary_lines, main_rho, main_theta) ==
    FilterFrom(secondary_lines, main_rho, main_theta, 0)

\* np.cos and np.sin of the angles Hough detection delivers here (whole degrees:
\* 0, 1, 45, 90, 135, 179), in units of 1/10000;
\* "exact" marks the angles whose cosine and sine are exactly these numbers
trig_scale == 10000

TrigTable == {
    [theta |-> 0,       cos |-> 10000,  sin |-> 0,     exact |-> TRUE],
    [theta |-> 17453,   cos |-> 9998,   sin |-> 175,   exact |-> FALSE],
    [theta |-> 785398,  cos |-> 7071,   sin |-> 7071,  exact |-> FALSE],
    [theta |-> 1570796, cos |-> 0,      sin |-> 10000, exact |-> FALSE],
    [theta |-> 2356194, cos |-> -7071,  sin |-> 7071,  exact |-> FALSE],
    [theta |-> 3124139, cos |-> -9998,  sin |-> 175,   exact |-> FALSE] }

Trig(theta) == CHOOSE e \in TrigTable : e.theta = theta

\* int() of n / trig_scale: truncation towards zero
Trunc(n) == IF n >= 0 THEN n \div trig_scale ELSE 0 - ((0 - n) \div trig_scale)

\* The integers int() can give for a float whose value the table places at
\* n / trig_scale: the table is off by at most half a unit per factor, so the
\* float lies within slack units of n, and near a whole number either
\* neighbour can come out.
IntOf(n, slack) == Trunc(n - slack)..Trunc(n + slack)

\* lines 131-138: the end points <<x1, y1, x2, y2>> of the segment drawn along
\* the line, every outcome the float arithmetic can have
LineEnds(rho, theta) ==
    LET a == Trig(theta).cos
        b == Trig(theta).sin
        slack == IF Trig(theta).exact THEN 0 ELSE (Abs(rho) + line_reach) \div 2 + 1
    IN  {<<x1, y1, x2, y2>> :
            x1 \in IntOf(a * rho - line_reach * b, slack),
            y1 \in IntOf(b * rho + line_reach * a, slack),
            x2 \in IntOf(a * rho + line_reach * b, slack),
            y2 \in IntOf(b * rho - line_reach * a, slack)}

\* 0 <= v <= limit for the quotient v = num / den, the upper test forgotten
Within_no_upper(num, den, limit) ==
    IF den > 0 THEN 0 <= num ELSE 0 <= 0 - num

\* 0 <= v <= limit for the quotient v = num / den, den # 0
Within(num, den, limit) ==
    IF den > 0 THEN 0 <= num /\ num <= limit * den
    ELSE 0 <= 0 - num /\ 0 - num <= limit * (0 - den)

\* int(v) for a quotient v = num / den that is not negative
IntQuot(num, den) ==
    IF den > 0 THEN num \div den ELSE (0 - num) \div (0 - den)

\* lines 140-156: the crossings of the segment with the four borders, in the
\* order left, right, top, bottom, cut to two.  v = p1 + dp * (at - q1) / dq
\* is kept as the quotient (p1 * dq + dp * (at - q1)) / dq.
get_line_points(ends, width, height) ==
    LET x1 == ends[1]
        y1 == ends[2]
        x2 == ends[3]
        y2 == ends[4]
        y_left == y1 * (x2 - x1) + (y2 - y1) * (0 - x1)
        y_right == y1 * (x2 - x1) + (y2 - y1) * (width - x1)
        x_top == x1 * (y2 - y1) + (x2 - x1) * (0 - y1)
        x_bottom == x1 * (y2 - y1) + (x2 - x1) * (height - y1)
        left == IF x1 # x2 /\ Within(y_left, x2 - x1, height)
                THEN << <<0, IntQuot(y_left, x2 - x1)>> >> ELSE <<>>
        right == IF x1 # x2 /\ Within(y_right, x2 - x1, height)
                 THEN << <<width, IntQuot(y_right, x2 - x1)>> >> ELSE <<>>
        top == IF y1 # y2 /\ Within(x_top, y2 - y1, width)
               THEN << <<IntQuot(x_top, y2 - y1), 0>> >> ELSE <<>>
        bottom == IF y1 # y2 /\ Within(x_bottom, y2 - y1, width)
                  THEN << <<IntQuot(x_bottom, y2 - y1), height>> >> ELSE <<>>
        points == left \o right \o top \o bottom
    IN  SubSeq(points, 1, Min(2, Len(points)))

\* a sort that leaves the list as it is
SortedBy_unsorted(points, c) == points

\* list.sort(key=...) and sorted(..., key=...): stable insertion by coordinate c
RECURSIVE SortedBy(_, _)
SortedBy(points, c) ==
    IF Len(points) <= 1 THEN points
    ELSE LET head == SortedBy(SubSeq(points, 1, Len(points) - 1), c)
             last == points[Len(points)]
             n == Cardinality({k \in 1..Len(head) : head[k][c] <= last[c]})
         IN  SubSeq(head, 1, n) \o <<last>> \o SubSeq(head, n + 1, Len(head))

\* lines 162-165, for at least four points
create_polygon(points1, points2) ==
    LET all_points == SortedBy(points1 \o points2, 2)
        top_points == SortedBy(SubSeq(all_points, 1, 2), 1)
        bottom_points == SortedBy(SubSeq(all_points, 3, Len(all_points)), 1)
    IN  <<At(top_points, 0), At(top_points, 1), At(bottom_points, 1), At(bottom_points, 0)>>

\* np.min(polygon, axis=0) and np.max(polygon, axis=0): <<x_min, y_min, x_max, y_max>>
RECURSIVE Least(_, _)
Least(points, c) ==
    IF Len(points) = 1 THEN points[1][c]
    ELSE Min(points[1][c], Least(Tail(points), c))

RECURSIVE Greatest(_, _)
Greatest(points, c) ==
    IF Len(points) = 1 THEN points[1][c]
    ELSE Max(points[1][c], Greatest(Tail(points), c))

BoundingBox(polygon) ==
    <<Least(polygon, 1), Least(polygon, 2), Greatest(polygon, 1), Greatest(polygon, 2)>>

---------------------------------------------------------------------------
(* Inputs: rectified strip rasters *)

\* the reference colour k (0-based, clamped to the ramp) of analyte number a
RefColor(a, k) ==
    LET ramp == At(builtin_test_data, a).val.colors
    IN  At(ramp, Min(k, Len(ramp) - 1))

BlankPad == <<200, 200, 200>>
Background == <<255, 255, 255>>

\* The colour (R,G,B) painted at row y, column x of a raster of the given
\* height.  Section s (1-based) covers the rows of one section height; every
\* third section carries pad number s / 3, the others show the background.
\*   "strip"   : pads 1..16 show the analytes' reference colour k, pad 17 is blank
\*   "flipped" : the same strip photographed upside down
\*   "speckle" : as "strip", every fourth column washed out to the background
\*               and two columns of three one step brighter
\*   "glare"   : as "strip", every second column washed out to the background
\*   "washed"  : nothing but background
\*   "dark"    : no blank pad at either end
Painted(kind, k, height, y, x) ==
    LET section_height == height \div num_sections
        s == IF section_height = 0 THEN 0 ELSE y \div section_height + 1
        pad == s \div section_step
        n == Len(builtin_test_data)
        ink(p) == IF p >= 1 /\ p <= n THEN RefColor(p - 1, k)
                  ELSE IF kind = "dark" THEN <<20, 20, 20>> ELSE BlankPad
        base == IF kind = "flipped" THEN ink(n + 2 - pad) ELSE ink(pad)
    IN  IF kind = "washed" \/ s = 0 \/ s % section_step # 0 \/ pad > n + 1 THEN Background
        ELSE IF kind = "speckle" /\ x % 4 = 3 THEN Background
        ELSE IF kind = "speckle" /\ x % 3 # 0 THEN [c \in 1..3 |-> base[c] + 1]
        ELSE IF kind = "glare" /\ x % 2 = 1 THEN Background
        ELSE base

\* a raster as cv2.imread returns it: pixels stored B,G,R
Raster(kind, k, height, width) ==
    [height |-> height, width |-> width,
     pixels |-> [p \in (0..(height - 1)) \X (0..(width - 1)) |->
                    Reverse(Painted(kind, k, height, p[1], p[2]))]]

Heights == {1, num_sections - 1, num_sections, num_sections + 1, 2 * num_sections, MaxHeight}
Widths == {1, 2, band_width, MaxWidth}
Kinds == {"strip", "flipped", "speckle", "glare", "washed", "dark"}

Images ==
    {Raster(kind, k, h, w) : kind \in Kinds, k \in {0, 6}, h \in Heights, w \in Widths}

NoImage == [height |-> 0, width |-> 0, pixels |-> <<>>]

---------------------------------------------------------------------------
(* Inputs: band lists handed to get_values directly *)

\* colours tried at the two ends of a list: <<>> leaves the end as it is
EndColors == {<<>>, <<171, 171, 171>>, <<170, 200, 200>>}

\* the band at position i: reference colour k of analyte i, shifted by jitter;
\* past the table, a blank pad
PadColor(i, k, jitter) ==
    IF i < Len(builtin_test_data)
    THEN LET c == RefColor(i, k)
         IN  <<Min(255, c[1] + jitter), Max(0, c[2] - jitter), c[3]>>
    ELSE BlankPad

BandList(n, k, jitter, first, last, flip) ==
    LET body == [p \in 1..n |->
                    [section |-> section_step * p,
                     rgb |-> IF p = 1 /\ first # <<>> THEN first
                             ELSE IF p = n /\ last # <<>> THEN last
                             ELSE PadColor(p - 1, k, jitter)]]
    IN  IF flip THEN Reverse(body) ELSE body

\* every reference colour exactly, and one ramp shifted off its references
Schemes == {<<k, 0>> : k \in 0..6} \cup {<<1, 3>>}

BandLists ==
    {BandList(n, sch[1], sch[2], first, last, flip) :
        n \in 0..MaxBands, sch \in Schemes,
        first \in EndColors, last \in EndColors, flip \in BOOLEAN}

---------------------------------------------------------------------------
(* Inputs: photographs, and the rasters cut out of them *)

\* A photograph as it reaches process_image:
\*   b64ok     : base64.b64decode accepts the text
\*   decodable : cv2.imread can decode the bytes (FALSE also for no bytes)
\*   main_lines, secondary_lines : what cv2.HoughLines finds at the two
\*               thresholds; each line wrapped in a list of one
\*   blobs     : the bright rectangles [x, y, w, h] thresholding leaves
\*   kind, k   : what is painted on the first blob, the strip (see Painted)
\*   lying     : the strip lies along x instead of along y
Photo(b64ok, decodable, width, height, main_lines, secondary_lines, blobs, kind, k, lying) ==
    [b64ok |-> b64ok, decodable |-> decodable, width |-> width, height |-> height,
     main_lines |-> main_lines, secondary_lines |-> secondary_lines,
     blobs |-> blobs, kind |-> kind, k |-> k, lying |-> lying]

Blob(x, y, w, h) == [x |-> x, y |-> y, w |-> w, h |-> h]

\* what surrounds the strip, R,G,B: darker than the threshold of crop_to_strip
Surround == <<40, 40, 40>>

\* the pixel (B,G,R) at row y, column x of a photograph
PhotoPixel(photo, y, x) ==
    LET strip == photo.blobs[1]
        on_strip == /\ photo.blobs # <<>>
                    /\ strip.x <= x /\ x < strip.x + strip.w
                    /\ strip.y <= y /\ y < strip.y + strip.h
    IN  IF ~on_strip THEN Reverse(Surround)
        ELSE IF photo.lying
             THEN Reverse(Painted(photo.kind, photo.k, strip.w, x - strip.x, y - strip.y))
             ELSE Reverse(Painted(photo.kind, photo.k, strip.h, y - strip.y, x - strip.x))

\* A raster held by reference: the window of the photograph starting at row y0,
\* column x0, and whether it was turned a quarter clockwise afterwards (height
\* and width are those of the raster as it stands)
View(photo, y0, x0, height, width, turned) ==
    [photo |-> photo, y0 |-> y0, x0 |-> x0, height |-> height, width |-> width,
     turned |-> turned]

NoPhoto == Photo(FALSE, FALSE, 0, 0, <<>>, <<>>, <<>>, "washed", 0, FALSE)
NoView == View(NoPhoto, 0, 0, 0, 0, FALSE)

\* cv2.imread of the photograph's bytes
WholeView(photo) == View(photo, 0, 0, photo.height, photo.width, FALSE)

\* img[y_min:y_max, x_min:x_max] of a raster not turned, the bounds not negative
Slice(img, y_min, y_max, x_min, x_max) ==
    LET ya == Min(y_min, img.height)
        yb == Min(y_max, img.height)
        xa == Min(x_min, img.width)
        xb == Min(x_max, img.width)
    IN  View(img.photo, img.y0 + ya, img.x0 + xa,
             IF yb > ya THEN yb - ya ELSE 0, IF xb > xa THEN xb - xa ELSE 0, FALSE)

\* cv2.rotate(img, cv2.ROTATE_90_CLOCKWISE): dst(y, x) = src(rows - 1 - x, y)
Rotate90Clockwise(img) ==
    View(img.photo, img.y0, img.x0, img.width, img.height, TRUE)

ViewPixel(img, y, x) ==
    IF img.turned
    THEN PhotoPixel(img.photo, img.y0 + (img.width - 1 - x), img.x0 + y)
    ELSE PhotoPixel(img.photo, img.y0 + y, img.x0 + x)

\* the raster itself, as get_colors reads it
Pixels(img) ==
    [height |-> img.height, width |-> img.width,
     pixels |-> [p \in (0..(img.height - 1)) \X (0..(img.width - 1)) |->
                    ViewPixel(img, p[1], p[2])]]

\* cv2.findContours on the thresholded crop: each bright rectangle cut to the
\* crop's window, with its cv2.boundingRect (x, y, w, h) and its
\* cv2.contourArea, which for a rectangle of w by h pixels is (w - 1)(h - 1)
Clip(blob, cropped) ==
    LET xa == Max(blob.x, cropped.x0)
        xb == Min(blob.x + blob.w, cropped.x0 + cropped.width)
        ya == Max(blob.y, cropped.y0)
        yb == Min(blob.y + blob.h, cropped.y0 + cropped.height)
    IN  [x |-> xa - cropped.x0, y |-> ya - cropped.y0, w |-> xb - xa, h |-> yb - ya,
         area |-> IF xb > xa /\ yb > ya THEN (xb - xa - 1) * (yb - ya - 1) ELSE 0]

Seen(cnt) == cnt.w > 0 /\ cnt.h > 0

Contours(cropped) ==
    SelectSeq([i \in 1..Len(cropped.photo.blobs) |-> Clip(cropped.photo.blobs[i], cropped)],
              Seen)

\* cv2.contourArea(cnt) >= MIN_AREA
LargeEnough_or_equal(cnt) == cnt.area >= MIN_AREA

\* cv2.contourArea(cnt) > MIN_AREA
LargeEnough(cnt) == cnt.area > MIN_AREA

\* An exception, and the values that stand for "none"
Exc(type, msg) == [type |-> type, msg |-> msg]
NoExc == Exc("", "")

RECURSIVE LeastOf(_)
LeastOf(s) == IF Len(s) = 1 THEN s[1] ELSE Min(s[1], LeastOf(Tail(s)))

RECURSIVE GreatestOf(_)
GreatestOf(s) == IF Len(s) = 1 THEN s[1] ELSE Max(s[1], GreatestOf(Tail(s)))

\* lines 167-185; an empty crop makes cv2.cvtColor raise
crop_to_strip(cropped_img) ==
    LET valid_contours == SelectSeq(Contours(cropped_img), LargeEnough)
        n == Len(valid_contours)
        x_min == LeastOf([i \in 1..n |-> valid_contours[i].x])
        y_min == LeastOf([i \in 1..n |-> valid_contours[i].y])
        x_max == GreatestOf([i \in 1..n |-> valid_contours[i].x + valid_contours[i].w])
        y_max == GreatestOf([i \in 1..n |-> valid_contours[i].y + valid_contours[i].h])
    IN  IF cropped_img.height = 0 \/ cropped_img.width = 0
        THEN [exc |-> Exc("cv2.error", "!_src.empty()"), img |-> NoView]
        ELSE IF n = 0
        THEN [exc |-> Exc("ValueError", "No valid contours found"), img |-> NoView]
        ELSE [exc |-> NoExc, img |-> Slice(cropped_img, y_min, y_max, x_min, x_max)]

\* the test of line 188 with >= for >
ensure_vertical_or_square(img) ==
    IF Shape(img)[2] >= Shape(img)[1] THEN Rotate90Clockwise(img) ELSE img

\* lines 187-190
ensure_vertical(img) ==
    IF Shape(img)[2] > Shape(img)[1] THEN Rotate90Clockwise(img) ELSE img

---------------------------------------------------------------------------
(* The file system, and the record of one process_image call *)

OUTPUT_DIR == "strips/output"
OUTPUT_FILE == "output.jpg"

\* os.path.join(OUTPUT_DIR, OUTPUT_FILE)
output_path == OUTPUT_DIR \o "/" \o OUTPUT_FILE

\* tempfile.NamedTemporaryFile(suffix='.jpg', delete=False).name: a name no
\* other call has
TempName(p) == "/tmp/tmp" \o ToString(p) \o ".jpg"

\* a local variable no assignment has reached yet
Unbound == "<unbound>"

\* files: path -> [writer, ok, img], the call that wrote the file, whether
\* cv2.imread can decode it, and the raster it decodes to.  The JPEG coding of
\* cv2.imwrite and cv2.imread is taken as a fixed function of the raster and
\* pictured by the raster itself; nothing below relies on it being lossless.
NoFiles == [files |-> [path \in {} |-> NoView], dirs |-> {}]

Exists(f, path) == path \in DOMAIN f.files

FileOf(writer, ok, img) == [writer |-> writer, ok |-> ok, img |-> img]

Write(f, path, file) ==
    [f EXCEPT !.files = [q \in (DOMAIN f.files) \cup {path} |->
                            IF q = path THEN file ELSE f.files[q]]]

\* an unlink that leaves the file where it is
Unlink_kept(f, path) == f

\* os.unlink(path) of a file that exists
Unlink(f, path) ==
    [f EXCEPT !.files = [q \in (DOMAIN f.files) \ {path} |-> f.files[q]]]

\* os.makedirs(dir): raises when the directory is there already
makedirs_strict(f, dir) ==
    IF dir \in f.dirs
    THEN [exc |-> Exc("FileExistsError", dir), fs |-> f]
    ELSE [exc |-> NoExc, fs |-> [f EXCEPT !.dirs = @ \cup {dir}]]

\* os.makedirs(dir, exist_ok=True)
makedirs(f, dir) == [exc |-> NoExc, fs |-> [f EXCEPT !.dirs = @ \cup {dir}]]

\* how a call ends
NoOutcome == [kind |-> "none", values |-> EmptyDict, exc |-> NoExc]
Returned(values) == [kind |-> "return", values |-> values, exc |-> NoExc]
Raised(exc) == [kind |-> "raise", values |-> EmptyDict, exc |-> exc]

\* the stages of one call, in the order process_image runs them
Stages == <<"decode", "locate", "rectify", "sample", "resolve">>

\* what analyze_strip is handed: the HTTP method and what request.body holds
\* ("not_json": no JSON text; "not_object": JSON that is no object;
\* "no_image": an object without the key 'image'; "empty_image": the key with
\* an empty value; "image": the key with a non-empty value)
Request(method, body) == [method |-> method, body |-> body]
NoRequest == Request("", "")

\* JsonResponse(data, status=status); data is {'error': error} or the mapping
JsonResponse(status, error, values) == [status |-> status, error |-> error, values |-> values]
NoResponse == JsonResponse(0, "", EmptyDict)

\* One call: its position, its input, its local variables, what is on its way
\* to the caller (pending) while the finally block runs, and how it ended.
\* cropped and strip are the crop to the polygon's box and what crop_to_strip
\* cut out of it.  trace lists the stages begun, failed names the stage that
\* raised, and sampled_from the writer of the file get_colors read (0: none).
NewCall(caller_name, photo) ==
    [caller |-> caller_name, pc |-> "call", photo |-> photo,
     temp_path |-> Unbound, cropped_path |-> Unbound,
     img |-> NoView, cropped |-> NoView, strip |-> NoView,
     main_line |-> <<>>, secondary_lines |-> <<>>,
     filtered_lines |-> <<>>, secondary_line |-> <<>>,
     points1 |-> <<>>, points2 |-> <<>>, polygon |-> <<>>,
     colors |-> <<>>, pending |-> NoOutcome, outcome |-> NoOutcome,
     trace |-> <<>>, failed |-> "", sampled_from |-> 0,
     request |-> NoRequest, response |-> NoResponse]

\* a request arrives at the view analyze_strip
ViewCall(request, photo) ==
    [NewCall("analyze_strip", photo) EXCEPT !.pc = "request", !.request = request]

\* a direct call of filter_secondary_lines(secondary_lines, main_rho, main_theta)
FilterCall(secondary_lines, main_rho, main_theta) ==
    [NewCall("filter_secondary_lines", NoPhoto) EXCEPT
        !.pc = "filter", !.secondary_lines = secondary_lines,
        !.main_line = <<main_rho, main_theta>>]

\* a stage begins
Begun(call, stage) == [call EXCEPT !.trace = Append(@, stage)]

\* an exception caught nowhere: the statements after the raise are carried on with
Propagate_swallowed(resume) == resume

\* an exception leaves the try block: control goes to the finally block
Propagate(resume) == "finally_temp"

\* a raise inside the try block, at a statement that would go on to resume
Failing(call, exc, resume) ==
    [call EXCEPT !.pc = Propagate(resume), !.pending = Raised(exc),
                 !.failed = call.trace[Len(call.trace)]]

---------------------------------------------------------------------------
(* finalize_report: the result cache of src/frontend/finalize_utils.py *)

\* agent runs, and runs ending in None, a behaviour may hold
MaxRuns == 35
MaxNoneRuns == 1

\* the number of keys _FINALIZE_ORDER may hold (line 194)
cache_capacity == 32

\* the result the agent's answer parses to: a report, or None when the answer
\* is the JSON text null
Report(key) == <<"report", key>>
NoReport == <<>>

\* list.pop(0) and dict.pop(old, None)
Without(d, key) == SelectSeq(d, LAMBDA entry : entry.key # key)

\* _FINALIZE_CACHE and _FINALIZE_ORDER at import; runs and none_runs count
\* the agent runs made; last describes the latest call: its key, whether the
\* key was in the cache, whether the agent ran, the result returned, the key
\* evicted (0: none) and the key that had gone unused longest before the call
\* (0: none); used lists the cached keys from the one unused longest to the
\* one used last
NoFinalize ==
    [FINALIZE_CACHE |-> EmptyDict, FINALIZE_ORDER |-> <<>>, runs |-> 0, none_runs |-> 0,
     used |-> <<>>,
     last |-> [key |-> 0, was_cached |-> FALSE, ran |-> FALSE, result |-> NoReport,
               evicted |-> 0, unused_longest |-> 0]]

\* key moved to the end of the list of keys in order of use
Touched(used, key) == SelectSeq(used, LAMBDA k : k # key) \o <<key>>

\* the eviction test of line 194 letting one key more in
OverCapacity_late(order) == Len(order) > cache_capacity + 1

\* line 194: len(_FINALIZE_ORDER) > 32
OverCapacity(order) == Len(order) > cache_capacity

\* lines 116-120 and 190-200: one call with the given cache key, the agent
\* answering with result if it is run
FinalizeReport(cache_key, result) ==
    LET cache == finalize.FINALIZE_CACHE
        order == finalize.FINALIZE_ORDER
        was_cached == HasKey(cache, cache_key)
        cached == IF was_cached THEN Get(cache, cache_key) ELSE NoReport
        unused_longest == IF finalize.used = <<>> THEN 0 ELSE finalize.used[1]
        stored == Put(cache, cache_key, result)
        appended == Append(order, cache_key)
        old == appended[1]
    IN  IF cached # NoReport
        THEN finalize' = [finalize EXCEPT
                !.used = Touched(@, cache_key),
                !.last = [key |-> cache_key, was_cached |-> TRUE, ran |-> FALSE,
                          result |-> cached, evicted |-> 0,
                          unused_longest |-> unused_longest]]
        ELSE /\ finalize.runs < MaxRuns
             /\ result = NoReport => finalize.none_runs < MaxNoneRuns
             /\ finalize' = [finalize EXCEPT
                   !.FINALIZE_CACHE = IF OverCapacity(appended) THEN Without(stored, old)
                                      ELSE stored,
                   !.FINALIZE_ORDER = IF OverCapacity(appended) THEN Tail(appended)
                                      ELSE appended,
                   !.runs = @ + 1,
                   !.none_runs = IF result = NoReport THEN @ + 1 ELSE @,
                   !.used = IF OverCapacity(appended)
                            THEN SelectSeq(Touched(@, cache_key),
                                           LAMBDA k : HasKey(Without(stored, old), k))
                            ELSE Touched(@, cache_key),
                   !.last = [key |-> cache_key, was_cached |-> was_cached, ran |-> TRUE,
                             result |-> result,
                             evicted |-> IF OverCapacity(appended) THEN old ELSE 0,
                             unused_longest |-> unused_longest]]

\* The keys a call may bring: a key never seen (keys are numbered as they
\* first come), the key at the head of _FINALIZE_ORDER, or key 1, the one
\* whose answers may parse to None
CallKeys ==
    {finalize.runs + 1, 1}
    \cup (IF finalize.FINALIZE_ORDER = <<>> THEN {} ELSE {finalize.FINALIZE_ORDER[1]})

Finalize ==
    /\ \E cache_key \in CallKeys :
          \E result \in {Report(cache_key)} \cup (IF cache_key = 1 THEN {NoReport} ELSE {}) :
             FinalizeReport(cache_key, result)
    /\ UNCHANGED <<test_data, image, colors, arg, results, pc, caller, calls, fs, procs>>

---------------------------------------------------------------------------
(* The state machine: a caller samples a raster and resolves the bands *)

TypeOK ==
    /\ pc \in {"start", "sampled", "resolved"}
    /\ caller \in {"process_image", "direct"}
    /\ calls \in 0..(MaxCalls + 1)

\* process_image hands get_colors the raster of the cropped strip;
\* a direct caller (tests, get_values.py) holds a band list of its own
Init ==
    /\ test_data = builtin_test_data
    /\ arg = <<>>
    /\ results = EmptyDict
    /\ calls = 0
    /\ fs = NoFiles
    /\ procs = <<>>
    /\ finalize = NoFinalize
    /\ \/ /\ caller = "process_image"
          /\ pc = "start"
          /\ image \in Images
          /\ colors = <<>>
       \/ /\ caller = "direct"
          /\ pc = "sampled"
          /\ image = NoImage
          /\ colors \in BandLists

\* process_image: colors = get_colors(cropped_path)
GetColors ==
    /\ pc = "start"
    /\ caller = "process_image"
    /\ colors' = get_colors(image)
    /\ pc' = "sampled"
    /\ UNCHANGED <<test_data, image, arg, results, caller, calls, fs, procs, finalize>>

\* values = get_values(colors): process_image calls it once on the list it got
\* from get_colors; a direct caller may call it again on the same list object
GetValues ==
    /\ \/ pc = "sampled"
       \/ pc = "resolved" /\ caller = "direct" /\ calls < MaxCalls
    /\ arg' = colors
    /\ colors' = get_values_list(colors)
    /\ results' = get_values(test_data, colors)
    /\ calls' = calls + 1
    /\ pc' = "resolved"
    /\ UNCHANGED <<test_data, image, caller, fs, procs, finalize>>

Next == GetColors \/ GetValues

Spec == Init /\ [][Next]_vars

---------------------------------------------------------------------------
(* The resolver over arbitrary reference ramps: the table holds one analyte *)
(* whose ramp is drawn from a small palette, and the list holds one band   *)
(* followed by the trailing blank pad                                      *)

RampPalette == {<<255, 0, 0>>, <<0, 255, 0>>, <<0, 0, 255>>, <<0, 0, 0>>, <<250, 10, 5>>}

Ramps == UNION {[1..n -> RampPalette] : n \in 1..MaxRampLen}

\* distinct values, so that a reported value tells the index it came from;
\* a ramp of three carries 10, 5, 0
RampValues(n) == [j \in 1..n |-> 500 * (n - j)]

RampTables == {<<Analyte("Sample", RampValues(Len(ramp)), ramp)>> : ramp \in Ramps}

RampBandLists ==
    {<<[section |-> section_step, rgb |-> rgb],
       [section |-> 2 * section_step, rgb |-> BlankPad]>> : rgb \in RampPalette}

InitRamp ==
    /\ test_data \in RampTables
    /\ caller = "direct"
    /\ pc = "sampled"
    /\ image = NoImage
    /\ colors \in RampBandLists
    /\ arg = <<>>
    /\ results = EmptyDict
    /\ calls = 0
    /\ fs = NoFiles
    /\ procs = <<>>
    /\ finalize = NoFinalize

NextRamp == GetValues

SpecRamp == InitRamp /\ [][NextRamp]_vars

---------------------------------------------------------------------------
(* process_image: one action per statement that touches the file system,  *)
(* the computation up to it included                                      *)

\* lines 349-356: base64.b64decode, then the bytes written to a new file
Decode(p) ==
    /\ procs[p].pc = "call"
    /\ LET call == Begun(procs[p], "decode")
       IN  IF ~call.photo.b64ok
           THEN /\ procs' = [procs EXCEPT ![p] =
                                [call EXCEPT !.pc = "done", !.failed = "decode",
                                    !.outcome = Raised(Exc("ValueError", "Invalid base64 image"))]]
                /\ fs' = fs
           ELSE /\ procs' = [procs EXCEPT ![p] =
                                [call EXCEPT !.pc = "load", !.temp_path = TempName(p)]]
                /\ fs' = Write(fs, TempName(p),
                               FileOf(p, call.photo.decodable, WholeView(call.photo)))
    /\ UNCHANGED sampler_vars

\* lines 193-194: load_image(image_path)
Load(p) ==
    /\ procs[p].pc = "load"
    /\ LET call == procs[p]
           file == fs.files[call.temp_path]
       IN  procs' = [procs EXCEPT ![p] =
              IF ~file.ok
              THEN Failing(call, Exc("ValueError", "Could not load image from " \o call.temp_path),
                           "detect")
              ELSE [call EXCEPT !.pc = "detect", !.img = file.img]]
    /\ UNCHANGED <<sampler_vars, fs>>

\* lines 196-204: the two Hough detections
DetectLines(p) ==
    /\ procs[p].pc = "detect"
    /\ LET call == Begun(procs[p], "locate")
           main_lines == call.photo.main_lines
       IN  procs' = [procs EXCEPT ![p] =
              IF main_lines = <<>>
              THEN Failing(call, Exc("ValueError", "No main lines detected"), "filter")
              ELSE [call EXCEPT !.pc = "filter", !.main_line = At(At(main_lines, 0), 0),
                                !.secondary_lines = call.photo.secondary_lines]]
    /\ UNCHANGED <<sampler_vars, fs>>

\* lines 205-208, and filter_secondary_lines called on its own
Filter(p) ==
    /\ procs[p].pc = "filter"
    /\ LET call == procs[p]
           filtered_lines == filter_secondary_lines(call.secondary_lines,
                                 At(call.main_line, 0), At(call.main_line, 1))
           kept == [call EXCEPT !.filtered_lines = filtered_lines]
       IN  procs' = [procs EXCEPT ![p] =
              IF call.caller = "filter_secondary_lines"
              THEN [kept EXCEPT !.pc = "done"]
              ELSE IF filtered_lines = <<>>
              THEN Failing(kept, Exc("ValueError", "No secondary lines kept"), "points")
              ELSE [kept EXCEPT !.pc = "points",
                                !.secondary_line = At(At(filtered_lines, 0), 0)]]
    /\ UNCHANGED <<sampler_vars, fs>>

\* lines 210-212: the border points of the two lines and the polygon
Points(p) ==
    /\ procs[p].pc = "points"
    /\ LET call == procs[p]
           height == Shape(call.img)[1]
           width == Shape(call.img)[2]
       IN  \E ends1 \in LineEnds(At(call.main_line, 0), At(call.main_line, 1)),
              ends2 \in LineEnds(At(call.secondary_line, 0), At(call.secondary_line, 1)) :
              LET points1 == get_line_points(ends1, width, height)
                  points2 == get_line_points(ends2, width, height)
                  found == [call EXCEPT !.points1 = points1, !.points2 = points2]
              IN  procs' = [procs EXCEPT ![p] =
                     IF Len(points1 \o points2) < 4
                     THEN Failing(found, Exc("ValueError", "Not enough intersection points"),
                                  "rectify")
                     ELSE [found EXCEPT !.pc = "rectify",
                                        !.polygon = create_polygon(points1, points2)]]
    /\ UNCHANGED <<sampler_vars, fs>>

\* lines 214-216: cropped = img[y_min:y_max, x_min:x_max]
CroppedToBox(img, polygon) ==
    LET box == BoundingBox(polygon)
    IN  Slice(img, box[2], box[4], box[1], box[3])

\* lines 214-219: the rectified strip of a call that has its polygon
Rectified(img, polygon) ==
    LET strip == crop_to_strip(CroppedToBox(img, polygon))
    IN  IF strip.exc # NoExc THEN strip
        ELSE [exc |-> NoExc, img |-> ensure_vertical(strip.img)]

\* lines 214-224: the crop, and the strip written to the output path
Rectify(p) ==
    /\ procs[p].pc = "rectify"
    /\ LET begun == Begun(procs[p], "rectify")
           cropped == CroppedToBox(begun.img, begun.polygon)
           call == [begun EXCEPT !.cropped = cropped, !.strip = crop_to_strip(cropped).img]
           final_cropped == Rectified(call.img, call.polygon)
           made == makedirs(fs, OUTPUT_DIR)
       IN  IF final_cropped.exc # NoExc
           THEN /\ procs' = [procs EXCEPT ![p] = Failing(call, final_cropped.exc, "exists")]
                /\ fs' = fs
           ELSE IF made.exc # NoExc
           THEN /\ procs' = [procs EXCEPT ![p] = Failing(call, made.exc, "exists")]
                /\ fs' = fs
           ELSE /\ procs' = [procs EXCEPT ![p] =
                                [call EXCEPT !.pc = "exists", !.cropped_path = output_path]]
                /\ fs' = Write(made.fs, output_path, FileOf(p, TRUE, final_cropped.img))
    /\ UNCHANGED sampler_vars

\* lines 264-265: get_colors looks for the file
ColorsExists(p) ==
    /\ procs[p].pc = "exists"
    /\ LET call == Begun(procs[p], "sample")
       IN  procs' = [procs EXCEPT ![p] =
              IF ~Exists(fs, call.cropped_path)
              THEN Failing(call, Exc("FileNotFoundError",
                                     "Image file not found: " \o call.cropped_path), "read")
              ELSE [call EXCEPT !.pc = "read"]]
    /\ UNCHANGED <<sampler_vars, fs>>

\* lines 267-292: get_colors reads the file and samples it
ColorsRead(p) ==
    /\ procs[p].pc = "read"
    /\ LET call == procs[p]
       IN  procs' = [procs EXCEPT ![p] =
              IF ~Exists(fs, call.cropped_path) \/ ~fs.files[call.cropped_path].ok
              THEN Failing(call, Exc("ValueError", "Could not load image"), "resolve")
              ELSE [call EXCEPT !.pc = "resolve",
                        !.colors = get_colors(Pixels(fs.files[call.cropped_path].img)),
                        !.sampled_from = fs.files[call.cropped_path].writer]]
    /\ UNCHANGED <<sampler_vars, fs>>

\* lines 362-363: values = get_values(colors); return values
Resolve(p) ==
    /\ procs[p].pc = "resolve"
    /\ LET call == Begun(procs[p], "resolve")
       IN  procs' = [procs EXCEPT ![p] =
              [call EXCEPT !.pc = "finally_temp",
                           !.colors = get_values_list(call.colors),
                           !.pending = Returned(get_values(test_data, call.colors))]]
    /\ UNCHANGED <<sampler_vars, fs>>

\* line 366: os.unlink(temp_path)
FinallyTemp(p) ==
    /\ procs[p].pc = "finally_temp"
    /\ fs' = Unlink(fs, procs[p].temp_path)
    /\ procs' = [procs EXCEPT ![p].pc = "finally_exists"]
    /\ UNCHANGED sampler_vars

\* line 367: os.path.exists(cropped_path); reading a local that was never
\* assigned raises, and the new exception takes the place of what was pending
FinallyExists(p) ==
    /\ procs[p].pc = "finally_exists"
    /\ LET call == procs[p]
       IN  procs' = [procs EXCEPT ![p] =
              IF call.cropped_path = Unbound
              THEN [call EXCEPT !.pc = "done",
                                !.outcome = Raised(Exc("UnboundLocalError", "cropped_path"))]
              ELSE IF Exists(fs, call.cropped_path)
              THEN [call EXCEPT !.pc = "finally_unlink"]
              ELSE [call EXCEPT !.pc = "done", !.outcome = call.pending]]
    /\ UNCHANGED <<sampler_vars, fs>>

\* line 368: os.unlink(cropped_path)
FinallyUnlink(p) ==
    /\ procs[p].pc = "finally_unlink"
    /\ LET call == procs[p]
       IN  IF Exists(fs, call.cropped_path)
           THEN /\ fs' = Unlink(fs, call.cropped_path)
                /\ procs' = [procs EXCEPT ![p] =
                                [call EXCEPT !.pc = "done", !.outcome = call.pending]]
           ELSE /\ fs' = fs
                /\ procs' = [procs EXCEPT ![p] =
                                [call EXCEPT !.pc = "done",
                                    !.outcome = Raised(Exc("FileNotFoundError",
                                                           call.cropped_path))]]
    /\ UNCHANGED sampler_vars

Step(p) ==
    \/ Decode(p)
    \/ Load(p)
    \/ DetectLines(p)
    \/ Filter(p)
    \/ Points(p)
    \/ Rectify(p)
    \/ ColorsExists(p)
    \/ ColorsRead(p)
    \/ Resolve(p)
    \/ FinallyTemp(p)
    \/ FinallyExists(p)
    \/ FinallyUnlink(p)

\* what the sampler's own variables hold while process_image calls run
InitCalls ==
    /\ test_data = builtin_test_data
    /\ image = NoImage
    /\ colors = <<>>
    /\ arg = <<>>
    /\ results = EmptyDict
    /\ pc = "start"
    /\ caller = "process_image"
    /\ calls = 0
    /\ fs = NoFiles
    /\ finalize = NoFinalize

---------------------------------------------------------------------------
(* Inputs of process_image, and its specifications *)

\* one line as cv2.HoughLines(...).tolist() holds it
Line(rho, theta) == << <<rho, theta>> >>

\* whole degrees in microradians
deg_0 == 0
deg_1 == 17453
deg_45 == 785398
deg_90 == 1570796
deg_135 == 2356194
deg_179 == 3124139
Degrees == {deg_0, deg_1, deg_45, deg_90, deg_135, deg_179}

\* the strip of an upright photograph of 60 by 120, and of a lying one of 120 by 60
UprightStrip == Blob(8, 6, 40, 108)
LyingStrip == Blob(6, 8, 108, 40)
\* a bright patch too small for crop_to_strip
Patch == Blob(8, 6, 40, 18)
\* bright patches with contour areas of 700 and 702, and a square one
Patch700 == Blob(10, 90, 36, 21)
Patch702 == Blob(20, 10, 28, 27)
SquarePatch == Blob(8, 6, 40, 40)

Upright(main_lines, secondary_lines, blobs, kind, k) ==
    Photo(TRUE, TRUE, 60, 120, main_lines, secondary_lines, blobs, kind, k, FALSE)

Lying(main_lines, secondary_lines, blobs, kind, k) ==
    Photo(TRUE, TRUE, 120, 60, main_lines, secondary_lines, blobs, kind, k, TRUE)

BadBase64 == NoPhoto
NotAnImage == Photo(TRUE, FALSE, 0, 0, <<>>, <<>>, <<>>, "washed", 0, FALSE)

\* the edges of the upright strip as vertical lines (theta = 0, where cosine
\* and sine are exact), among lines the filter has to drop
StripMain == <<Line(5, deg_0), Line(50, deg_0)>>
StripSecondary == <<Line(5, deg_0), Line(50, deg_1), Line(45, deg_0), Line(50, deg_0)>>

\* photographs for concurrent and repeated calls: one for each way of
\* failing and two strips that read differently
PipelinePhotos ==
    { BadBase64,
      NotAnImage,
      Upright(<<>>, StripSecondary, <<UprightStrip>>, "strip", 0),
      Upright(StripMain, <<Line(5, deg_0), Line(45, deg_0), Line(50, deg_1)>>,
              <<UprightStrip>>, "strip", 0),
      Upright(StripMain, <<Line(100, deg_0)>>, <<UprightStrip>>, "strip", 0),
      Upright(StripMain, StripSecondary, <<Patch>>, "strip", 0),
      Upright(StripMain, StripSecondary, <<UprightStrip>>, "strip", 0),
      Upright(StripMain, StripSecondary, <<UprightStrip>>, "flipped", 6) }

\* two calls of process_image running at the same time
Callers == {1, 2}

InitPipeline ==
    /\ InitCalls
    /\ procs \in [Callers -> {NewCall("process_image", photo) : photo \in PipelinePhotos}]

NextPipeline == \E p \in Callers : Step(p)

SpecPipeline == InitPipeline /\ [][NextPipeline]_vars

\* two calls on the same input, the second made when the first has ended
InitTwice ==
    /\ InitCalls
    /\ \E photo \in PipelinePhotos :
          procs = [p \in Callers |-> NewCall("process_image", photo)]

NextTwice ==
    \/ Step(1)
    \/ procs[1].pc = "done" /\ Step(2)

SpecTwice == InitTwice /\ [][NextTwice]_vars

\* Lines of every direction and place for one call: the main line, and
\* candidates around it
MainRhos == {-30, 5, 30, 100}

Candidates(rho, theta) ==
    { <<>>,
      <<Line(rho, theta), Line(rho + 40, theta), Line(rho + 41, theta), Line(rho - 45, theta)>>,
      <<Line(rho - 41, theta), Line(rho + 50, theta)>>,
      <<Line(rho + 50, IF theta = deg_0 THEN deg_1 ELSE deg_0), Line(rho - 40, theta)>>,
      <<Line(rho + 50, IF theta = deg_0 THEN deg_179 ELSE deg_0),
        Line(rho + 50, IF theta = deg_179 THEN deg_135 ELSE deg_179), Line(rho + 60, theta)>> }

MainLines == MainRhos \X Degrees

\* what thresholding may leave between the strip's edges: patches at, above
\* and below the least area, alone and together
PatchLists ==
    { <<Patch700>>, <<Patch702>>, <<Patch702, Patch700>>, <<Patch700, Patch>>,
      <<SquarePatch>>, <<SquarePatch, Patch702, Patch700>>, <<Patch702, UprightStrip>> }

LocatePhotos ==
    {BadBase64, NotAnImage, Upright(<<>>, <<>>, <<UprightStrip>>, "strip", 0)}
    \cup {Upright(StripMain, StripSecondary, blobs, "strip", 0) : blobs \in PatchLists}
    \cup UNION {{Upright(<<Line(m[1], m[2])>>, secondary_lines, blobs, "strip", 0) :
                    secondary_lines \in Candidates(m[1], m[2]),
                    blobs \in {<<UprightStrip>>, <<Patch>>}} : m \in MainLines}
    \cup UNION {{Lying(<<Line(m[1], m[2])>>, secondary_lines, <<LyingStrip>>, "flipped", 6) :
                    secondary_lines \in Candidates(m[1], m[2])} : m \in MainLines}

\* arguments for filter_secondary_lines called on its own: angles on both
\* sides of the two tolerances (0.01 rad is 10000 microradians)
DirectThetas == {0, 9999, 10000, 3131594, 3141593, 3151592, 3151594}
DirectRhos == {-41, -40, 0, 40, 41}

DirectCalls ==
    {FilterCall(<<Line(rho1, theta1), Line(rho2, theta2)>>, 0, main_theta) :
        rho1 \in DirectRhos, theta1 \in DirectThetas,
        rho2 \in {0, 41}, theta2 \in {0, 9999},
        main_theta \in {0, 10000}}

InitLocate ==
    /\ InitCalls
    /\ \E call \in {NewCall("process_image", photo) : photo \in LocatePhotos} \cup DirectCalls :
          procs = <<call>>

NextLocate == Step(1)

SpecLocate == InitLocate /\ [][NextLocate]_vars

---------------------------------------------------------------------------
(* finalize_report called again and again *)

InitFinalize ==
    /\ InitCalls
    /\ procs = <<>>

NextFinalize == Finalize

SpecFinalize == InitFinalize /\ [][NextFinalize]_vars

---------------------------------------------------------------------------
(* the view analyze_strip of src/strips/views.py *)

\* views.py lines 8-14: the method test of require_http_methods, json.loads,
\* data.get('image') and the test of the image; json.JSONDecodeError is a
\* ValueError (line 18), data.get on a list or a number raises AttributeError
\* (line 20)
Receive(p) ==
    /\ procs[p].caller = "analyze_strip"
    /\ procs[p].pc = "request"
    /\ LET call == procs[p]
           Answer(response) == [call EXCEPT !.pc = "responded", !.response = response]
       IN  procs' = [procs EXCEPT ![p] =
              IF call.request.method # "POST"
              THEN Answer(JsonResponse(405, "", EmptyDict))
              ELSE IF call.request.body = "not_json"
              THEN Answer(JsonResponse(400, "Expecting value: line 1 column 1 (char 0)",
                                       EmptyDict))
              ELSE IF call.request.body = "not_object"
              THEN Answer(JsonResponse(500, "Internal server error", EmptyDict))
              ELSE IF call.request.body \in {"no_image", "empty_image"}
              THEN Answer(JsonResponse(400, "No image provided", EmptyDict))
              ELSE [call EXCEPT !.pc = "call"]]
    /\ UNCHANGED <<sampler_vars, fs>>

\* views.py lines 16-21: process_image has returned or raised
Respond(p) ==
    /\ procs[p].caller = "analyze_strip"
    /\ procs[p].pc = "done"
    /\ LET call == procs[p]
           response == IF call.outcome.kind = "return"
                       THEN JsonResponse(200, "", call.outcome.values)
                       ELSE IF call.outcome.exc.type = "ValueError"
                       THEN JsonResponse(400, call.outcome.exc.msg, EmptyDict)
                       ELSE JsonResponse(500, "Internal server error", EmptyDict)
       IN  procs' = [procs EXCEPT ![p] =
                        [call EXCEPT !.pc = "responded", !.response = response]]
    /\ UNCHANGED <<sampler_vars, fs>>

Methods == {"POST", "GET"}
Bodies == {"not_json", "not_object", "no_image", "empty_image"}

ViewCalls ==
    {ViewCall(Request(method, body), NoPhoto) : method \in Methods, body \in Bodies}
    \cup {ViewCall(Request(method, "image"), photo) : method \in Methods, photo \in LocatePhotos}

InitView ==
    /\ InitCalls
    /\ \E call \in ViewCalls : procs = <<call>>

NextView ==
    \/ Receive(1)
    \/ Step(1)
    \/ Respond(1)

SpecView == InitView /\ [][NextView]_vars

---------------------------------------------------------------------------
(* Vocabulary of the properties, stated without the operators of the model *)

\* squared Euclidean distance in RGB space
Dist2(a, b) ==
    (a[1] - b[1]) * (a[1] - b[1]) + (a[2] - b[2]) * (a[2] - b[2])
        + (a[3] - b[3]) * (a[3] - b[3])

\* the 0-based indices of the ramp entries nearest to rgb
NearestSet(rgb, ramp) ==
    {j \in 0..(Len(ramp) - 1) :
        \A m \in 0..(Len(ramp) - 1) : Dist2(rgb, ramp[j + 1]) <= Dist2(rgb, ramp[m + 1])}

LowestNearest(rgb, ramp) ==
    CHOOSE j \in NearestSet(rgb, ramp) : \A m \in NearestSet(rgb, ramp) : j <= m

\* all three channels above 170
NearWhite(rgb) == rgb[1] > 170 /\ rgb[2] > 170 /\ rgb[3] > 170

Front(list) == SubSeq(list, 1, Len(list) - 1)

\* the bands of the list after the call that are paired with an analyte
PairedPositions == 0..(Min(Len(colors), Len(test_data)) - 1)

TheExampleRamp == << <<255, 0, 0>>, <<0, 255, 0>>, <<0, 0, 255>> >>

---------------------------------------------------------------------------
(* C1: for every band colour and every non-empty ramp, the index            *)
(* closest_color_index returns is one whose squared RGB distance to the     *)
(* band colour is at most that of every ramp entry, and get_values reports  *)
(* the value at that index; the ramp red, green, blue with values 10, 5, 0  *)
(* resolves the band (250,10,5) to 10.                                      *)
C1_NearestReferenceValue ==
    pc = "resolved" =>
        \A i \in PairedPositions :
            LET rgb == colors[i + 1].rgb
                data == test_data[i + 1].val
                idx == closest_color_index(rgb, data.colors)
            IN  /\ idx \in 0..(Len(data.colors) - 1)
                /\ \A j \in 1..Len(data.colors) :
                       Dist2(rgb, data.colors[idx + 1]) <= Dist2(rgb, data.colors[j])
                /\ Get(results, test_data[i + 1].key).value = Num(data.values[idx + 1])
                /\ (rgb = <<250, 10, 5>> /\ data.colors = TheExampleRamp
                        => Get(results, test_data[i + 1].key).value = Num(1000))

\* the example of the claim has been resolved
C1_Witness ==
    /\ pc = "resolved"
    /\ calls = 1
    /\ test_data[1].val.colors = TheExampleRamp
    /\ test_data[1].val.values = <<1000, 500, 0>>
    /\ arg[1].rgb = <<250, 10, 5>>
    /\ results = <<[key |-> "Sample", val |-> [value |-> Num(1000)]]>>

(* C2: when several ramp entries are at the same minimal distance from the  *)
(* band colour, the index found is the lowest of them, and its value is the *)
(* one reported.                                                            *)
C2_TieTakesLowestIndex ==
    pc = "resolved" =>
        \A i \in PairedPositions :
            LET rgb == colors[i + 1].rgb
                data == test_data[i + 1].val
            IN  Cardinality(NearestSet(rgb, data.colors)) >= 2 =>
                    /\ closest_color_index(rgb, data.colors) = LowestNearest(rgb, data.colors)
                    /\ Get(results, test_data[i + 1].key).value
                           = Num(data.values[LowestNearest(rgb, data.colors) + 1])

\* a tie between the second and third entries of a ramp, behind a farther first
C2_Witness ==
    /\ pc = "resolved"
    /\ calls = 1
    /\ arg[1].rgb = <<250, 10, 5>>
    /\ test_data[1].val.colors = << <<0, 255, 0>>, <<255, 0, 0>>, <<255, 0, 0>> >>
    /\ NearestSet(arg[1].rgb, test_data[1].val.colors) = {1, 2}
    /\ Get(results, "Sample").value = Num(500)

(* C3: for every analyte of the built-in table and every index k of its     *)
(* ramp, a band whose colour equals the reference colour k resolves to      *)
(* exactly the value k.                                                     *)
C3_ExactReferenceMatch ==
    pc = "resolved" =>
        \A i \in PairedPositions :
            LET data == builtin_test_data[i + 1].val
            IN  \A k \in 1..Len(data.colors) :
                    colors[i + 1].rgb = data.colors[k]
                        => Get(results, builtin_test_data[i + 1].key).value = Num(data.values[k])

\* sixteen bands, each equal to the last reference colour of its analyte
C3_Witness ==
    /\ pc = "resolved"
    /\ Len(colors) = 16
    /\ \A i \in 0..15 :
           LET data == builtin_test_data[i + 1].val
           IN  /\ colors[i + 1].rgb = data.colors[Len(data.colors)]
               /\ results[i + 1].val.value = Num(data.values[Len(data.values)])

\* the band list as get_colors returned it
SampledList == IF pc = "sampled" THEN colors ELSE arg

(* C4: whatever the height and width of the raster, get_colors returns 17   *)
(* band samples (52 div 3) with the section indices 3, 6, ..., 51 in that   *)
(* order; after the resolver has discarded one, 16 remain, as many as the   *)
(* calibration table has analytes.                                          *)
C4_SeventeenBandsSixteenKept ==
    caller = "process_image" /\ pc # "start" =>
        /\ Len(SampledList) = 17
        /\ \A p \in 1..Len(SampledList) : SampledList[p].section = 3 * p
        /\ pc = "resolved" => Len(colors) = 16 /\ Len(test_data) = 16

\* a raster of one pixel has been sampled and resolved
C4_Witness ==
    /\ caller = "process_image"
    /\ pc = "resolved"
    /\ image.height = 1
    /\ image.width = 1
    /\ Len(arg) = 17
    /\ arg[17].section = 51
    /\ Len(colors) = 16

(* C5: get_values reverses the band list if and only if its first band is   *)
(* near-white/gray (all channels above 170); with only the last band        *)
(* near-white, or neither end, the order is kept, and resolution goes on.   *)
C5_ReversedIffFirstWhite ==
    pc = "resolved" /\ Len(arg) > 0 =>
        /\ NearWhite(arg[1].rgb) => colors = Front(Reverse(arg))
        /\ ~NearWhite(arg[1].rgb) => colors = Front(arg)
        /\ Len(results) = Len(arg) - 1

\* only the first band is near-white: the list has been reversed and resolved
C5_Witness ==
    /\ pc = "resolved"
    /\ Len(arg) = 17
    /\ NearWhite(arg[1].rgb)
    /\ ~NearWhite(arg[17].rgb)
    /\ Front(Reverse(arg)) # Front(arg)
    /\ colors = Front(Reverse(arg))
    /\ Len(results) = 16

(* C6: for a band list whose last band is near-white/gray and whose first   *)
(* band is not, get_values of the list and get_values of the reversed list  *)
(* return the same mapping.                                                 *)
C6_SameMappingWhenFlipped ==
    pc = "resolved" /\ Len(arg) > 0
        /\ NearWhite(arg[Len(arg)].rgb) /\ ~NearWhite(arg[1].rgb)
    => results = get_values(test_data, Reverse(arg))

\* a full strip with its blank pad last, whose reversal is another list
C6_Witness ==
    /\ pc = "resolved"
    /\ calls = 1
    /\ Len(arg) = 17
    /\ NearWhite(arg[17].rgb)
    /\ ~NearWhite(arg[1].rgb)
    /\ Front(Reverse(arg)) # Front(arg)
    /\ Len(results) = 16
    /\ results = get_values(test_data, Reverse(arg))

\* the entry the band at position i of the list must give
ExpectedEntry(list, i) ==
    IF i < Len(test_data)
    THEN LET data == test_data[i + 1].val
         IN  [key |-> test_data[i + 1].key,
              val |-> [value |-> Num(data.values[LowestNearest(list[i + 1].rgb, data.colors) + 1])]]
    ELSE [key |-> "Extra " \o ToString(i + 1), val |-> [value |-> None]]

C8_PositionalPairing ==
    pc = "resolved" =>
        /\ test_data[1].key = "Total Alkalinity"
        /\ test_data[16].key = "Fluoride"
        /\ \A i \in PairedPositions :
               /\ results[i + 1].key = test_data[i + 1].key
               /\ results[i + 1] = ExpectedEntry(colors, i)
        /\ \A a \in (Len(colors) + 1)..Len(test_data) : ~HasKey(results, test_data[a].key)

\* five bands left: five analytes resolved, the others absent
C8_Witness ==
    /\ pc = "resolved"
    /\ Len(colors) = 5
    /\ Keys(results) = <<"Total Alkalinity", "PH", "Hardness", "Hydrogen Sulfide", "Iron">>
    /\ ~HasKey(results, "Copper")
    /\ ~HasKey(results, "Fluoride")

\* the keys of the mapping that name no analyte of the table
ExtraKeys ==
    {results[k].key : k \in 1..Len(results)} \ {test_data[a].key : a \in 1..Len(test_data)}

(* C9: every band left after the discard at a position i >= 16 is in the    *)
(* mapping under its own key "Extra <i+1>" with the value null; the extra   *)
(* keys are pairwise distinct and number max(0, n-1-16).                    *)
C9_SurplusBandsKept ==
    pc = "resolved" =>
        /\ \A i \in 16..(Len(colors) - 1) :
               /\ results[i + 1].key = "Extra " \o ToString(i + 1)
               /\ results[i + 1].val.value = None
               /\ \A j \in 16..(Len(colors) - 1) : results[j + 1].key = results[i + 1].key => j = i
        /\ Cardinality(ExtraKeys) = Max(0, Len(arg) - 1 - 16)
        /\ Len(results) = Len(colors)

\* nineteen bands: the two past the table are reported as Extra 17 and Extra 18
C9_Witness ==
    /\ pc = "resolved"
    /\ Len(arg) = 19
    /\ Len(results) = 18
    /\ results[17] = [key |-> "Extra 17", val |-> [value |-> None]]
    /\ results[18] = [key |-> "Extra 18", val |-> [value |-> None]]
    /\ ExtraKeys = {"Extra 17", "Extra 18"}

(* C10: the mapping of a successful process_image call has an entry for     *)
(* each of the 16 analytes of the table, and the value of each entry is an  *)
(* element of the values list of its analyte, which is as long as the       *)
(* colours list the index was found in.                                     *)
C10_CompleteMappingOfTableValues ==
    caller = "process_image" /\ pc = "resolved" =>
        /\ Len(test_data) = 16
        /\ \A a \in 1..Len(test_data) :
               LET data == test_data[a].val
               IN  /\ Len(data.values) = Len(data.colors)
                   /\ HasKey(results, test_data[a].key)
                   /\ \E j \in 1..Len(data.values) :
                          Get(results, test_data[a].key).value = Num(data.values[j])

\* a photographed strip resolved to a value of every analyte
C10_Witness ==
    /\ caller = "process_image"
    /\ pc = "resolved"
    /\ image.height >= 52
    /\ Len(results) = 16
    /\ Get(results, "PH").value = Num(620)
    /\ Get(results, "Fluoride").value = Num(0)

---------------------------------------------------------------------------
(* Vocabulary of the band properties: the band of sample p in the raster *)

\* the pixel coordinates of the band of sample p (section 3p): the rows of
\* that section, fourteen columns around the horizontal midpoint
BandRegion(p) ==
    LET sh == image.height \div 52
        cx == image.width \div 2
    IN  {c \in (0..(image.height - 1)) \X (0..(image.width - 1)) :
            /\ c[1] >= (3 * p - 1) * sh /\ c[1] < 3 * p * sh
            /\ c[2] >= cx - 7 /\ c[2] < cx + 7}

\* every channel of the stored pixel is below 240
Qualifies(c) ==
    image.pixels[c][1] < 240 /\ image.pixels[c][2] < 240 /\ image.pixels[c][3] < 240

QualifyingRegion(p) == {c \in BandRegion(p) : Qualifies(c)}

RECURSIVE SumOver(_, _)
SumOver(region, ch) ==
    IF region = {} THEN 0
    ELSE LET c == CHOOSE d \in region : TRUE
         IN  image.pixels[c][ch] + SumOver(region \ {c}, ch)

\* the sum of colour channel ch (1 = R, 2 = G, 3 = B) over the qualifying
\* pixels of band p; the raster stores B,G,R
ChannelSum(p, ch) == SumOver(QualifyingRegion(p), 4 - ch)

C12_AverageRounded ==
    caller = "process_image" /\ pc # "start" =>
        \A p \in 1..Len(SampledList) :
            LET n == Cardinality(QualifyingRegion(p))
            IN  n > 0 =>
                    \A ch \in 1..3 :
                        LET d == n * SampledList[p].rgb[ch] - ChannelSum(p, ch)
                        IN  2 * d <= n /\ 2 * d >= 0 - n

(* C12 as amended: the colour of a band with a qualifying pixel is, per     *)
(* channel in R,G,B order, the average over exactly the qualifying pixels   *)
(* with its fraction dropped (truncated, not rounded).                      *)
C12_AverageTruncated ==
    caller = "process_image" /\ pc # "start" =>
        \A p \in 1..Len(SampledList) :
            LET n == Cardinality(QualifyingRegion(p))
            IN  n > 0 =>
                    \A ch \in 1..3 :
                        /\ n * SampledList[p].rgb[ch] <= ChannelSum(p, ch)
                        /\ ChannelSum(p, ch) < n * (SampledList[p].rgb[ch] + 1)

\* a band holding washed-out pixels beside qualifying ones whose red average
\* has a fraction above one half, reported with the fraction dropped
C12_Witness ==
    /\ caller = "process_image"
    /\ pc = "sampled"
    /\ QualifyingRegion(1) # {}
    /\ QualifyingRegion(1) # BandRegion(1)
    /\ LET n == Cardinality(QualifyingRegion(1))
       IN  /\ 2 * (ChannelSum(1, 1) % n) > n
           /\ colors[1].rgb[1] = ChannelSum(1, 1) \div n

---------------------------------------------------------------------------
(* Strip Locator: the secondary line and the border points *)

\* the filter has run in call p
Filtered(p) == procs[p].main_line # <<>> /\ procs[p].pc # "filter"

\* the candidate is parallel or anti-parallel to the main line of the only
\* call and more than 40 away from it
KeptByRule(line) ==
    LET rho == line[1][1]
        theta == line[1][2]
        main_rho == procs[1].main_line[1]
        main_theta == procs[1].main_line[2]
        d == theta - main_theta
        e == theta - main_theta - pi_urad
        r == rho - main_rho
    IN  /\ \/ (d < 10000 /\ 0 - d < 10000)
           \/ (e < 10000 /\ 0 - e < 10000)
        /\ (r > 40 \/ 0 - r > 40)

\* C19: filter_secondary_lines returns, in input order, exactly the candidates
\* that are parallel or anti-parallel to the main line within 0.01 rad and
\* more than 40 away in rho; crop_strip takes the first of them as the
\* secondary line, which is therefore never the main line nor a line within 40
\* of it, and fails with "No secondary lines kept" when there is none.
C19_SecondaryLineFilter ==
    \A p \in DOMAIN procs :
        (p = 1 /\ Filtered(p)) =>
            LET call == procs[p]
            IN  /\ call.filtered_lines = SelectSeq(call.secondary_lines, KeptByRule)
                /\ call.caller = "process_image" =>
                      IF call.filtered_lines = <<>>
                      THEN /\ call.failed = "locate"
                           /\ call.pending = Raised(Exc("ValueError", "No secondary lines kept"))
                           /\ call.secondary_line = <<>>
                      ELSE /\ call.secondary_line = call.filtered_lines[1][1]
                           /\ call.secondary_line # call.main_line
                           /\ \/ call.secondary_line[1] - call.main_line[1] > 40
                              \/ call.main_line[1] - call.secondary_line[1] > 40

\* crop_strip has dropped the main line itself and a line 40 away, kept two of
\* four candidates and taken the first of the two
C19_Witness ==
    /\ Len(procs) = 1
    /\ procs[1].caller = "process_image"
    /\ procs[1].pc = "points"
    /\ Len(procs[1].secondary_lines) = 4
    /\ procs[1].secondary_lines[1][1] = procs[1].main_line
    /\ Len(procs[1].filtered_lines) = 2
    /\ procs[1].secondary_line = procs[1].secondary_lines[3][1]

\* the border points of call p have been computed
Pointed(p) == procs[p].secondary_line # <<>> /\ procs[p].pc # "points"

OnBorder(pt, width, height) ==
    /\ (pt[1] = 0 \/ pt[1] = width \/ pt[2] = 0 \/ pt[2] = height)
    /\ 0 <= pt[1] /\ pt[1] <= width
    /\ 0 <= pt[2] /\ pt[2] <= height

\* C20: get_line_points returns at most two points, each on a border line of
\* the image and inside 0..width by 0..height; so the bounding box of the
\* quadrilateral made of the two lines' points lies within the image.
C20_BorderPointsInBounds ==
    \A p \in DOMAIN procs :
        Pointed(p) =>
            LET call == procs[p]
                width == call.photo.width
                height == call.photo.height
                all == call.points1 \o call.points2
            IN  /\ Len(call.points1) <= 2
                /\ Len(call.points2) <= 2
                /\ \A i \in 1..Len(all) : OnBorder(all[i], width, height)
                /\ call.polygon # <<>> =>
                      /\ \A i \in 1..4 :
                            /\ 0 <= call.polygon[i][1] /\ call.polygon[i][1] <= width
                            /\ 0 <= call.polygon[i][2] /\ call.polygon[i][2] <= height
                      /\ BoundingBox(call.polygon)[1] >= 0
                      /\ BoundingBox(call.polygon)[2] >= 0
                      /\ BoundingBox(call.polygon)[3] <= width
                      /\ BoundingBox(call.polygon)[4] <= height

\* two slanted lines, each cutting two borders, have given a quadrilateral
C20_Witness ==
    /\ Len(procs) = 1
    /\ Pointed(1)
    /\ procs[1].main_line[2] = deg_45
    /\ Len(procs[1].points1) = 2
    /\ Len(procs[1].points2) = 2
    /\ procs[1].polygon # <<>>
    /\ procs[1].points1[1][1] = 0
    /\ procs[1].points1[2][2] = 0

---------------------------------------------------------------------------
(* process_image as a whole: cleanup, outcomes, order, concurrent calls *)

Ended(p) == procs[p].caller = "process_image" /\ procs[p].pc = "done"

\* C13: when a call that wrote its temporary input file returns or raises,
\* that file is gone, and so is every file the call wrote.
C13_ArtifactsRemovedOnExit ==
    \A p \in DOMAIN procs :
        (Ended(p) /\ procs[p].temp_path # Unbound) =>
            /\ ~Exists(fs, procs[p].temp_path)
            /\ \A path \in DOMAIN fs.files : fs.files[path].writer # p

\* both calls have ended after writing their files, one with a mapping and
\* one with an exception raised while sampling, and no file is left
C13_Witness ==
    /\ DOMAIN procs = Callers
    /\ Ended(1) /\ Ended(2)
    /\ procs[1].outcome.kind = "return"
    /\ procs[1].cropped_path # Unbound
    /\ procs[2].failed = "sample"
    /\ procs[2].cropped_path # Unbound
    /\ DOMAIN fs.files = {}

\* the errors the stages define, by message
DefinedMessages ==
    {"Invalid base64 image", "No main lines detected", "No secondary lines kept",
     "Not enough intersection points", "No valid contours found"}

IsDefinedError(call) ==
    /\ call.outcome.kind = "raise"
    /\ call.outcome.exc.type = "ValueError"
    /\ \/ call.outcome.exc.msg \in DefinedMessages
       \/ call.failed = "decode"

IsCompleteMapping(values) ==
    \A a \in 1..Len(builtin_test_data) : HasKey(values, builtin_test_data[a].key)

\* C14: every call ends with a complete mapping or with the defined error of
\* the stage that failed; bytes that are no image end in the decode error.
C14_MappingOrDefinedError ==
    \A p \in DOMAIN procs :
        Ended(p) =>
            /\ \/ procs[p].outcome.kind = "return" /\ IsCompleteMapping(procs[p].outcome.values)
               \/ IsDefinedError(procs[p])
            /\ ~procs[p].photo.decodable =>
                  procs[p].outcome.kind = "raise" /\ procs[p].failed = "decode"
                  /\ procs[p].outcome.exc.type = "ValueError"

IsPrefix(s, u) == Len(s) <= Len(u) /\ \A i \in 1..Len(s) : s[i] = u[i]

\* C15: the stages of a call begin in the order decode, locate, rectify,
\* sample, resolve; once a stage has failed no stage begins and only the
\* cleanup runs; a call in which a stage failed returns no mapping.
C15_StagesInOrderNoPartialResult ==
    \A p \in DOMAIN procs :
        procs[p].caller = "process_image" =>
            LET call == procs[p]
            IN  /\ IsPrefix(call.trace, Stages)
                /\ call.failed # "" =>
                      /\ call.failed = call.trace[Len(call.trace)]
                      /\ call.pc \in {"finally_temp", "finally_exists", "finally_unlink", "done"}
                /\ (call.failed # "" /\ call.pc = "done") =>
                      call.outcome.kind = "raise" /\ call.outcome.values = EmptyDict
                /\ call.outcome.kind = "return" =>
                      call.trace = Stages /\ IsCompleteMapping(call.outcome.values)

\* a call has ended by raising, its rectify stage having failed after decode
\* and locate ran, while the other call went through all five stages
C15_Witness ==
    /\ DOMAIN procs = Callers
    /\ Ended(1) /\ Ended(2)
    /\ procs[1].failed = "rectify"
    /\ procs[1].trace = <<"decode", "locate", "rectify">>
    /\ procs[1].outcome.kind = "raise"
    /\ procs[2].trace = Stages
    /\ procs[2].outcome.kind = "return"

Running(p) == procs[p].caller = "process_image" /\ procs[p].pc \notin {"call", "done"}

\* C16: calls that run at the same time keep their temporary input files and
\* their cropped-strip files at different paths, and no call samples a file
\* another call wrote.
C16_PerCallArtifactPaths ==
    \A p \in DOMAIN procs :
        /\ procs[p].sampled_from \in {0, p}
        /\ \A q \in DOMAIN procs :
              (p # q /\ Running(p) /\ Running(q)) =>
                  /\ procs[p].temp_path # procs[q].temp_path
                  /\ (procs[p].cropped_path # Unbound /\ procs[q].cropped_path # Unbound) =>
                        procs[p].cropped_path # procs[q].cropped_path

\* the outcomes of process_image run alone on a photograph, from a file
\* system without files
SoloUnbound == Raised(Exc("UnboundLocalError", "cropped_path"))

SoloFrom(photo, ends1, ends2) ==
    LET points1 == get_line_points(ends1, photo.width, photo.height)
        points2 == get_line_points(ends2, photo.width, photo.height)
        strip == Rectified(WholeView(photo), create_polygon(points1, points2))
    IN  IF Len(points1 \o points2) < 4 THEN SoloUnbound
        ELSE IF strip.exc # NoExc THEN SoloUnbound
        ELSE Returned(get_values(builtin_test_data, get_colors(Pixels(strip.img))))

SoloOutcomes(photo) ==
    IF ~photo.b64ok THEN {Raised(Exc("ValueError", "Invalid base64 image"))}
    ELSE IF ~photo.decodable \/ photo.main_lines = <<>> THEN {SoloUnbound}
    ELSE LET main_line == photo.main_lines[1][1]
             kept == filter_secondary_lines(photo.secondary_lines, main_line[1], main_line[2])
         IN  IF kept = <<>> THEN {SoloUnbound}
             ELSE {SoloFrom(photo, ends1, ends2) :
                      ends1 \in LineEnds(main_line[1], main_line[2]),
                      ends2 \in LineEnds(kept[1][1][1], kept[1][1][2])}

\* C17: each of two calls running at the same time ends as it ends when run
\* alone on its input.
C17_OutcomeAsWhenAlone ==
    \A p \in DOMAIN procs :
        Ended(p) => procs[p].outcome \in SoloOutcomes(procs[p].photo)

\* C18: of two calls made one after the other on the same input, the second
\* ends as the first did.
C18_SecondRunSameOutcome ==
    (DOMAIN procs = Callers /\ Ended(2)) =>
        /\ procs[1].photo = procs[2].photo
        /\ Ended(1)
        /\ procs[2].outcome = procs[1].outcome

\* both runs have written and removed their files and returned the same
\* complete mapping, the output directory being left behind by the first
C18_Witness ==
    /\ DOMAIN procs = Callers
    /\ Ended(1) /\ Ended(2)
    /\ procs[2].outcome.kind = "return"
    /\ IsCompleteMapping(procs[2].outcome.values)
    /\ procs[1].outcome = procs[2].outcome
    /\ fs.dirs = {OUTPUT_DIR}
    /\ DOMAIN fs.files = {}

---------------------------------------------------------------------------
(* Strip Locator and Rectifier: polygon, orientation, contour crop *)

\* how often a point occurs in a list of points
Occurrences(pt, points) == Cardinality({i \in 1..Len(points) : points[i] = pt})

\* C21: from four border points create_polygon makes a permutation of them in
\* the order top-left, top-right, bottom-right, bottom-left: the first two
\* are two points of smallest y with x not decreasing, the last two are two
\* points of largest y with x not increasing; from fewer than four points it
\* fails with "Not enough intersection points" and makes no polygon.
C21_PolygonOrder ==
    \A p \in DOMAIN procs :
        Pointed(p) =>
            LET call == procs[p]
                all == call.points1 \o call.points2
                polygon == call.polygon
            IN  IF Len(all) < 4
                THEN /\ polygon = <<>>
                     /\ call.failed = "locate"
                     /\ call.pending = Raised(Exc("ValueError", "Not enough intersection points"))
                ELSE /\ Len(polygon) = 4
                     /\ \A i \in 1..4 :
                           Occurrences(polygon[i], polygon) = Occurrences(polygon[i], all)
                     /\ \A i \in {1, 2}, j \in {3, 4} : polygon[i][2] <= polygon[j][2]
                     /\ polygon[1][1] <= polygon[2][1]
                     /\ polygon[3][1] >= polygon[4][1]

\* the points came as left and top of one line and left and top of the
\* other, and the polygon holds them in another order
C21_Witness ==
    /\ Len(procs) = 1
    /\ Pointed(1)
    /\ Len(procs[1].polygon) = 4
    /\ procs[1].polygon # procs[1].points1 \o procs[1].points2
    /\ procs[1].polygon[1][2] < procs[1].polygon[4][2]
    /\ procs[1].polygon[1][1] < procs[1].polygon[2][1]

\* call p has just written its rectified strip
Written(p) == procs[p].pc = "exists" /\ Exists(fs, output_path)

\* out shows img turned a quarter clockwise: the left column of img, read
\* from the bottom up, is the top row of out
IsQuarterTurn(out, img) ==
    /\ out.height = img.width
    /\ out.width = img.height
    /\ \A y \in 0..(out.height - 1), x \in 0..(out.width - 1) :
          ViewPixel(out, y, x) = ViewPixel(img, img.height - 1 - x, y)

\* C22: ensure_vertical turns its input a quarter exactly when the input is
\* wider than tall and returns every other input, a square one included,
\* unchanged; its output is at least as tall as wide, and applying it to its
\* output changes nothing.
C22_VerticalOrientation ==
    \A p \in DOMAIN procs :
        Written(p) =>
            LET img == procs[p].strip
                out == fs.files[output_path].img
            IN  /\ img.width > img.height => IsQuarterTurn(out, img)
                /\ img.width <= img.height => out = img
                /\ out.height >= out.width
                /\ ensure_vertical(out) = out

\* a strip lying on its side has been turned upright
C22_Witness ==
    /\ Len(procs) = 1
    /\ Written(1)
    /\ procs[1].strip.width > procs[1].strip.height
    /\ fs.files[output_path].img.height > fs.files[output_path].img.width
    /\ fs.files[output_path].img # procs[1].strip

\* the contours of a crop whose area exceeds 700
Over700(cnt) == cnt.area > 700

\* call p has run crop_to_strip
Cut(p) == procs[p].polygon # <<>> /\ procs[p].pc # "rectify"

\* C23: crop_to_strip keeps exactly the contours of area above 700; with none
\* kept it fails with "No valid contours found"; otherwise it returns the
\* crop from the least left and top edge to the greatest right and bottom
\* edge of the kept contours' bounding rectangles, which lies inside its input.
C23_ContourCrop ==
    \A p \in DOMAIN procs :
        Cut(p) =>
            LET call == procs[p]
                kept == SelectSeq(Contours(call.cropped), Over700)
                idx == 1..Len(kept)
                strip == call.strip
                left == strip.x0 - call.cropped.x0
                top == strip.y0 - call.cropped.y0
            IN  IF kept = <<>>
                THEN /\ call.failed = "rectify"
                     /\ call.pending = Raised(Exc("ValueError", "No valid contours found"))
                     /\ call.cropped_path = Unbound
                ELSE /\ call.failed # "rectify"
                     /\ \A i \in idx : left <= kept[i].x /\ top <= kept[i].y
                     /\ \E i \in idx : left = kept[i].x
                     /\ \E i \in idx : top = kept[i].y
                     /\ \A i \in idx : kept[i].x + kept[i].w <= left + strip.width
                     /\ \A i \in idx : kept[i].y + kept[i].h <= top + strip.height
                     /\ \E i \in idx : kept[i].x + kept[i].w = left + strip.width
                     /\ \E i \in idx : kept[i].y + kept[i].h = top + strip.height
                     /\ 0 <= left /\ left + strip.width <= call.cropped.width
                     /\ 0 <= top /\ top + strip.height <= call.cropped.height

\* of three contours the one of area 700 was dropped and the crop is the box
\* around the other two
C23_Witness ==
    /\ Len(procs) = 1
    /\ Cut(1)
    /\ procs[1].failed = ""
    /\ Len(Contours(procs[1].cropped)) = 3
    /\ Len(SelectSeq(Contours(procs[1].cropped), Over700)) = 2
    /\ \E i \in 1..3 : Contours(procs[1].cropped)[i].area = 700
    /\ procs[1].strip.width = 40
    /\ procs[1].strip.height = 40

---------------------------------------------------------------------------
(* Band Sampler: where the bands lie *)

\* get_colors has just sampled the raster
Sampled == caller = "process_image" /\ pc = "sampled"

\* C24: with section_height = height div 52 the band of section i spans the
\* rows from (i-1)*section_height up to i*section_height and the columns from
\* max(0, cx-7) up to min(width, cx+7) around cx = width div 2, all within the
\* raster; the bands of successive samples do not overlap and follow one
\* another from top to bottom.
C24_BandsInsideAndOrdered ==
    Sampled =>
        LET sh == image.height \div 52
            cx == image.width \div 2
            rect(k) == Band(image, colors[k].section).rect
        IN  /\ \A k \in 1..Len(colors) :
                  LET i == colors[k].section
                  IN  /\ rect(k)[2] = (i - 1) * sh
                      /\ rect(k)[4] = i * sh
                      /\ rect(k)[1] = (IF cx - 7 > 0 THEN cx - 7 ELSE 0)
                      /\ rect(k)[3] = (IF cx + 7 < image.width THEN cx + 7 ELSE image.width)
                      /\ 0 <= rect(k)[2] /\ rect(k)[2] <= rect(k)[4]
                      /\ rect(k)[4] <= image.height
                      /\ 0 <= rect(k)[1] /\ rect(k)[1] <= rect(k)[3]
                      /\ rect(k)[3] <= image.width
            /\ \A k \in 1..(Len(colors) - 1) :
                  /\ colors[k].section < colors[k + 1].section
                  /\ rect(k)[4] <= rect(k + 1)[2]

\* a raster taller than 52 rows and wider than the band: the last band ends
\* above the bottom row and the band is narrower than the raster
C24_Witness ==
    /\ Sampled
    /\ Len(colors) = 17
    /\ image.height = 104
    /\ image.width = 15
    /\ Band(image, colors[17].section).rect = <<0, 100, 14, 102>>
    /\ Band(image, colors[1].section).rect = <<0, 4, 14, 6>>

---------------------------------------------------------------------------
(* Analyte Resolver: the caller's list; short rasters *)

\* C25: get_values leaves the band list it is given as it was: after the
\* call the caller's list holds the samples it held on entry, in the same order.
C25_BandListUnchanged ==
    pc = "resolved" => colors = arg

Black == <<0, 0, 0>>

\* the rectified strip of call p is fewer than 52 rows tall
ShortStrip(p) ==
    /\ procs[p].caller = "process_image"
    /\ procs[p].cropped_path # Unbound
    /\ procs[p].strip.height < 52
    /\ procs[p].strip.width < 52

\* C28: a rectified strip of fewer than 52 rows gives 17 bands, every one
\* reported as (0,0,0); no error is raised and the call returns a mapping of
\* all 16 analytes, each resolved from (0,0,0).
C28_ShortRasterResolvesFromBlack ==
    \A p \in DOMAIN procs :
        ShortStrip(p) =>
            LET call == procs[p]
                black == [k \in 1..17 |-> [section |-> 3 * k, rgb |-> Black]]
            IN  /\ call.failed = ""
                /\ call.pc = "resolve" => call.colors = black
                /\ call.pc = "done" =>
                      /\ call.outcome.kind = "return"
                      /\ Len(call.outcome.values) = 16
                      /\ \A i \in 0..15 : call.outcome.values[i + 1] = ExpectedEntry(black, i)

\* a square strip of 40 rows has been sampled and resolved
C28_Witness ==
    /\ Len(procs) = 1
    /\ ShortStrip(1)
    /\ procs[1].strip.height = 40
    /\ procs[1].pc = "done"
    /\ procs[1].outcome.kind = "return"
    /\ Get(procs[1].outcome.values, "PH").value = Num(620)

---------------------------------------------------------------------------
(* Strip Locator: lines as Hough detection delivers them *)

\* crop_strip has run the filter in call p on detected lines
FilteredDetected(p) == procs[p].caller = "process_image" /\ Filtered(p)

\* C29: with every theta a whole number of degrees from 0 up to 179, each
\* line the filter keeps has the main line's theta: no candidate is within
\* 0.01 rad of the main theta plus pi, and none of another degree is within
\* 0.01 rad of the main theta; so the secondary line is parallel to the main
\* line and at least 40 away from it in rho.
C29_KeptLinesParallel ==
    \A p \in DOMAIN procs :
        FilteredDetected(p) =>
            LET call == procs[p]
                main_rho == call.main_line[1]
                main_theta == call.main_line[2]
            IN  /\ \A i \in 1..Len(call.secondary_lines) :
                      LET e == call.secondary_lines[i][1][2] - main_theta - pi_urad
                      IN  ~(e < 10000 /\ 0 - e < 10000)
                /\ \A i \in 1..Len(call.filtered_lines) :
                      call.filtered_lines[i][1][2] = main_theta
                /\ call.secondary_line # <<>> =>
                      /\ call.secondary_line[2] = main_theta
                      /\ \/ call.secondary_line[1] - main_rho >= 40
                         \/ main_rho - call.secondary_line[1] >= 40

\* with the main line at 0 degrees a far candidate at 179 degrees was
\* dropped and the parallel one behind it taken
C29_Witness ==
    /\ Len(procs) = 1
    /\ FilteredDetected(1)
    /\ procs[1].main_line[2] = deg_0
    /\ Len(procs[1].secondary_lines) = 3
    /\ procs[1].secondary_lines[1][1][2] = deg_179
    /\ procs[1].filtered_lines = <<procs[1].secondary_lines[3]>>
    /\ procs[1].secondary_line = procs[1].secondary_lines[3][1]

---------------------------------------------------------------------------
(* finalize_report: the result cache *)

\* C26: a call whose key is in the cache returns the cached result without
\* running the agent, and the key an insertion evicts is the one that had
\* gone unused longest, a cache hit counting as a use.
C26_CacheIsLeastRecentlyUsed ==
    /\ finalize.last.was_cached =>
          /\ ~finalize.last.ran
          /\ HasKey(finalize.FINALIZE_CACHE, finalize.last.key)
          /\ finalize.last.result = Get(finalize.FINALIZE_CACHE, finalize.last.key)
    /\ finalize.last.evicted # 0 => finalize.last.evicted = finalize.last.unused_longest

\* C27: _FINALIZE_ORDER never holds more than 32 keys, _FINALIZE_CACHE never
\* more than 32 entries, and every key of _FINALIZE_CACHE occurs in
\* _FINALIZE_ORDER.
C27_CacheBounded ==
    /\ Len(finalize.FINALIZE_ORDER) <= 32
    /\ Len(finalize.FINALIZE_CACHE) <= 32
    /\ \A i \in 1..Len(finalize.FINALIZE_CACHE) :
          \E j \in 1..Len(finalize.FINALIZE_ORDER) :
             finalize.FINALIZE_ORDER[j] = finalize.FINALIZE_CACHE[i].key

\* the cache is full, a key has just been evicted, and a key inserted twice
\* stands twice in the order
C27_Witness ==
    /\ Len(finalize.FINALIZE_ORDER) = 32
    /\ finalize.last.evicted # 0
    /\ Len(finalize.FINALIZE_CACHE) < 32
    /\ \E i, j \in 1..32 : i < j /\ finalize.FINALIZE_ORDER[i] = finalize.FINALIZE_ORDER[j]

---------------------------------------------------------------------------
(* the answers of analyze_strip *)

Responded(p) ==
    /\ procs[p].caller = "analyze_strip"
    /\ procs[p].pc = "responded"
    /\ procs[p].request.method = "POST"

\* the error a stage of the pipeline raised, whatever the caller then saw
StageError(call) ==
    IF call.pending.kind = "raise" THEN call.pending.exc ELSE call.outcome.exc

OwnError(call) == call.failed # "" /\ StageError(call).type = "ValueError"

\* C30: a request without an image, or one whose pipeline fails with one of
\* its own errors (a ValueError), is answered with status 400 and the error
\* message; status 500 is the answer to other faults only; every other
\* request is answered with status 200 and the complete mapping.
C30_StatusByFault ==
    \A p \in DOMAIN procs :
        Responded(p) =>
            LET call == procs[p]
                no_image == call.request.body \in {"no_image", "empty_image"}
            IN  /\ no_image =>
                      call.response.status = 400 /\ call.response.error = "No image provided"
                /\ OwnError(call) =>
                      call.response.status = 400 /\ call.response.error = StageError(call).msg
                /\ call.response.status = 500 => ~no_image /\ ~OwnError(call)
                /\ (call.request.body = "image" /\ call.failed = "") =>
                      /\ call.response.status = 200
                      /\ IsCompleteMapping(call.response.values)

====
